---- MODULE Spec2Model ----
(* Section writer of ffprobe (fftools/ffprobe.c): the static section registry,
   the show-entries filters, the writer cursor (WriterContext) with its
   open / emit / close operations, the string validator and the producers
   that drive the cursor. *)
EXTENDS Integers, Sequences, FiniteSets, TLC

(* ---------------------------------------------------------------- *)
(* Section registry                                                 *)
(* ---------------------------------------------------------------- *)

\* enum SectionID without SECTION_ID_NONE; the SECTION_ID_ prefix is dropped
SectionID ==
    { "CHAPTER", "CHAPTER_TAGS", "CHAPTERS", "ERROR",
      "FORMAT", "FORMAT_TAGS", "FRAME", "FRAMES",
      "FRAME_TAGS", "FRAME_SIDE_DATA_LIST", "FRAME_SIDE_DATA", "FRAME_SIDE_DATA_TIMECODE_LIST",
      "FRAME_SIDE_DATA_TIMECODE", "FRAME_SIDE_DATA_COMPONENT_LIST", "FRAME_SIDE_DATA_COMPONENT", "FRAME_SIDE_DATA_PIECE_LIST",
      "FRAME_SIDE_DATA_PIECE", "FRAME_LOG", "FRAME_LOGS", "LIBRARY_VERSION",
      "LIBRARY_VERSIONS", "PACKET", "PACKET_TAGS", "PACKETS",
      "PACKETS_AND_FRAMES", "PACKET_SIDE_DATA_LIST", "PACKET_SIDE_DATA", "PIXEL_FORMAT",
      "PIXEL_FORMAT_FLAGS", "PIXEL_FORMAT_COMPONENT", "PIXEL_FORMAT_COMPONENTS", "PIXEL_FORMATS",
      "PROGRAM_STREAM_DISPOSITION", "PROGRAM_STREAM_TAGS", "PROGRAM", "PROGRAM_STREAMS",
      "PROGRAM_STREAM", "PROGRAM_TAGS", "PROGRAM_VERSION", "PROGRAMS",
      "STREAM_GROUP_STREAM_DISPOSITION", "STREAM_GROUP_STREAM_TAGS", "STREAM_GROUP", "STREAM_GROUP_COMPONENTS",
      "STREAM_GROUP_COMPONENT", "STREAM_GROUP_SUBCOMPONENTS", "STREAM_GROUP_SUBCOMPONENT", "STREAM_GROUP_PIECES",
      "STREAM_GROUP_PIECE", "STREAM_GROUP_SUBPIECES", "STREAM_GROUP_SUBPIECE", "STREAM_GROUP_BLOCKS",
      "STREAM_GROUP_BLOCK", "STREAM_GROUP_STREAMS", "STREAM_GROUP_STREAM", "STREAM_GROUP_DISPOSITION",
      "STREAM_GROUP_TAGS", "STREAM_GROUPS", "ROOT", "STREAM",
      "STREAM_DISPOSITION", "STREAMS", "STREAM_TAGS", "STREAM_SIDE_DATA_LIST",
      "STREAM_SIDE_DATA", "SUBTITLE" }

SECTION_ID_NONE == "NONE"

\* one struct section: the immutable fields (entries_to_show and
\* show_all_entries are the variables of the same names)
Sec(name, flags, children_ids, element_name, unique_name, get_type) ==
    [ name |-> name, flags |-> flags, children_ids |-> children_ids,
      element_name |-> element_name, unique_name |-> unique_name,
      get_type |-> get_type ]

\* static struct section sections[]; "NULL" is an absent string or accessor
sections ==
    ("CHAPTERS" :> Sec("chapters", {"IS_ARRAY"},
          <<"CHAPTER">>,
          "NULL", "NULL", "NULL"))
    @@ ("CHAPTER" :> Sec("chapter", {},
          <<"CHAPTER_TAGS">>,
          "NULL", "NULL", "NULL"))
    @@ ("CHAPTER_TAGS" :> Sec("tags", {"HAS_VARIABLE_FIELDS"},
          <<>>,
          "tag", "chapter_tags", "NULL"))
    @@ ("ERROR" :> Sec("error", {},
          <<>>,
          "NULL", "NULL", "NULL"))
    @@ ("FORMAT" :> Sec("format", {},
          <<"FORMAT_TAGS">>,
          "NULL", "NULL", "NULL"))
    @@ ("FORMAT_TAGS" :> Sec("tags", {"HAS_VARIABLE_FIELDS"},
          <<>>,
          "tag", "format_tags", "NULL"))
    @@ ("FRAMES" :> Sec("frames", {"IS_ARRAY"},
          <<"FRAME", "SUBTITLE">>,
          "NULL", "NULL", "NULL"))
    @@ ("FRAME" :> Sec("frame", {},
          <<"FRAME_TAGS", "FRAME_SIDE_DATA_LIST", "FRAME_LOGS">>,
          "NULL", "NULL", "NULL"))
    @@ ("FRAME_TAGS" :> Sec("tags", {"HAS_VARIABLE_FIELDS"},
          <<>>,
          "tag", "frame_tags", "NULL"))
    @@ ("FRAME_SIDE_DATA_LIST" :> Sec("side_data_list", {"IS_ARRAY"},
          <<"FRAME_SIDE_DATA">>,
          "side_data", "frame_side_data_list", "NULL"))
    @@ ("FRAME_SIDE_DATA" :> Sec("side_data", {"HAS_VARIABLE_FIELDS", "HAS_TYPE"},
          <<"FRAME_SIDE_DATA_TIMECODE_LIST", "FRAME_SIDE_DATA_COMPONENT_LIST">>,
          "side_datum", "frame_side_data", "get_frame_side_data_type"))
    @@ ("FRAME_SIDE_DATA_TIMECODE_LIST" :> Sec("timecodes", {"IS_ARRAY"},
          <<"FRAME_SIDE_DATA_TIMECODE">>,
          "NULL", "NULL", "NULL"))
    @@ ("FRAME_SIDE_DATA_TIMECODE" :> Sec("timecode", {},
          <<>>,
          "NULL", "NULL", "NULL"))
    @@ ("FRAME_SIDE_DATA_COMPONENT_LIST" :> Sec("components", {"IS_ARRAY"},
          <<"FRAME_SIDE_DATA_COMPONENT">>,
          "component", "frame_side_data_components", "NULL"))
    @@ ("FRAME_SIDE_DATA_COMPONENT" :> Sec("component", {"HAS_VARIABLE_FIELDS", "HAS_TYPE"},
          <<"FRAME_SIDE_DATA_PIECE_LIST">>,
          "component_entry", "frame_side_data_component", "get_raw_string_type"))
    @@ ("FRAME_SIDE_DATA_PIECE_LIST" :> Sec("pieces", {"IS_ARRAY"},
          <<"FRAME_SIDE_DATA_PIECE">>,
          "piece", "frame_side_data_pieces", "NULL"))
    @@ ("FRAME_SIDE_DATA_PIECE" :> Sec("piece", {"HAS_VARIABLE_FIELDS", "HAS_TYPE"},
          <<>>,
          "piece_entry", "frame_side_data_piece", "get_raw_string_type"))
    @@ ("FRAME_LOGS" :> Sec("logs", {"IS_ARRAY"},
          <<"FRAME_LOG">>,
          "NULL", "NULL", "NULL"))
    @@ ("FRAME_LOG" :> Sec("log", {},
          <<>>,
          "NULL", "NULL", "NULL"))
    @@ ("LIBRARY_VERSIONS" :> Sec("library_versions", {"IS_ARRAY"},
          <<"LIBRARY_VERSION">>,
          "NULL", "NULL", "NULL"))
    @@ ("LIBRARY_VERSION" :> Sec("library_version", {},
          <<>>,
          "NULL", "NULL", "NULL"))
    @@ ("PACKETS" :> Sec("packets", {"IS_ARRAY"},
          <<"PACKET">>,
          "NULL", "NULL", "NULL"))
    @@ ("PACKETS_AND_FRAMES" :> Sec("packets_and_frames", {"IS_ARRAY"},
          <<"PACKET">>,
          "NULL", "NULL", "NULL"))
    @@ ("PACKET" :> Sec("packet", {},
          <<"PACKET_TAGS", "PACKET_SIDE_DATA_LIST">>,
          "NULL", "NULL", "NULL"))
    @@ ("PACKET_TAGS" :> Sec("tags", {"HAS_VARIABLE_FIELDS"},
          <<>>,
          "tag", "packet_tags", "NULL"))
    @@ ("PACKET_SIDE_DATA_LIST" :> Sec("side_data_list", {"IS_ARRAY"},
          <<"PACKET_SIDE_DATA">>,
          "side_data", "packet_side_data_list", "NULL"))
    @@ ("PACKET_SIDE_DATA" :> Sec("side_data", {"HAS_VARIABLE_FIELDS", "HAS_TYPE"},
          <<>>,
          "side_datum", "packet_side_data", "get_packet_side_data_type"))
    @@ ("PIXEL_FORMATS" :> Sec("pixel_formats", {"IS_ARRAY"},
          <<"PIXEL_FORMAT">>,
          "NULL", "NULL", "NULL"))
    @@ ("PIXEL_FORMAT" :> Sec("pixel_format", {},
          <<"PIXEL_FORMAT_FLAGS", "PIXEL_FORMAT_COMPONENTS">>,
          "NULL", "NULL", "NULL"))
    @@ ("PIXEL_FORMAT_FLAGS" :> Sec("flags", {},
          <<>>,
          "NULL", "pixel_format_flags", "NULL"))
    @@ ("PIXEL_FORMAT_COMPONENTS" :> Sec("components", {"IS_ARRAY"},
          <<"PIXEL_FORMAT_COMPONENT">>,
          "NULL", "pixel_format_components", "NULL"))
    @@ ("PIXEL_FORMAT_COMPONENT" :> Sec("component", {},
          <<>>,
          "NULL", "NULL", "NULL"))
    @@ ("PROGRAM_STREAM_DISPOSITION" :> Sec("disposition", {},
          <<>>,
          "NULL", "program_stream_disposition", "NULL"))
    @@ ("PROGRAM_STREAM_TAGS" :> Sec("tags", {"HAS_VARIABLE_FIELDS"},
          <<>>,
          "tag", "program_stream_tags", "NULL"))
    @@ ("PROGRAM" :> Sec("program", {},
          <<"PROGRAM_TAGS", "PROGRAM_STREAMS">>,
          "NULL", "NULL", "NULL"))
    @@ ("PROGRAM_STREAMS" :> Sec("streams", {"IS_ARRAY"},
          <<"PROGRAM_STREAM">>,
          "NULL", "program_streams", "NULL"))
    @@ ("PROGRAM_STREAM" :> Sec("stream", {},
          <<"PROGRAM_STREAM_DISPOSITION", "PROGRAM_STREAM_TAGS">>,
          "NULL", "program_stream", "NULL"))
    @@ ("PROGRAM_TAGS" :> Sec("tags", {"HAS_VARIABLE_FIELDS"},
          <<>>,
          "tag", "program_tags", "NULL"))
    @@ ("PROGRAM_VERSION" :> Sec("program_version", {},
          <<>>,
          "NULL", "NULL", "NULL"))
    @@ ("PROGRAMS" :> Sec("programs", {"IS_ARRAY"},
          <<"PROGRAM">>,
          "NULL", "NULL", "NULL"))
    @@ ("STREAM_GROUP_STREAM_DISPOSITION" :> Sec("disposition", {},
          <<>>,
          "NULL", "stream_group_stream_disposition", "NULL"))
    @@ ("STREAM_GROUP_STREAM_TAGS" :> Sec("tags", {"HAS_VARIABLE_FIELDS"},
          <<>>,
          "tag", "stream_group_stream_tags", "NULL"))
    @@ ("STREAM_GROUP" :> Sec("stream_group", {},
          <<"STREAM_GROUP_TAGS", "STREAM_GROUP_DISPOSITION", "STREAM_GROUP_COMPONENTS", "STREAM_GROUP_STREAMS">>,
          "NULL", "NULL", "NULL"))
    @@ ("STREAM_GROUP_COMPONENTS" :> Sec("components", {"IS_ARRAY"},
          <<"STREAM_GROUP_COMPONENT">>,
          "component", "stream_group_components", "NULL"))
    @@ ("STREAM_GROUP_COMPONENT" :> Sec("component", {"HAS_VARIABLE_FIELDS", "HAS_TYPE"},
          <<"STREAM_GROUP_SUBCOMPONENTS">>,
          "component_entry", "stream_group_component", "get_stream_group_type"))
    @@ ("STREAM_GROUP_SUBCOMPONENTS" :> Sec("subcomponents", {"IS_ARRAY"},
          <<"STREAM_GROUP_SUBCOMPONENT">>,
          "component", "NULL", "NULL"))
    @@ ("STREAM_GROUP_SUBCOMPONENT" :> Sec("subcomponent", {"HAS_VARIABLE_FIELDS", "HAS_TYPE"},
          <<"STREAM_GROUP_PIECES">>,
          "subcomponent_entry", "NULL", "get_raw_string_type"))
    @@ ("STREAM_GROUP_PIECES" :> Sec("pieces", {"IS_ARRAY"},
          <<"STREAM_GROUP_PIECE">>,
          "piece", "stream_group_pieces", "NULL"))
    @@ ("STREAM_GROUP_PIECE" :> Sec("piece", {"HAS_VARIABLE_FIELDS", "HAS_TYPE"},
          <<"STREAM_GROUP_SUBPIECES">>,
          "piece_entry", "stream_group_piece", "get_raw_string_type"))
    @@ ("STREAM_GROUP_SUBPIECES" :> Sec("subpieces", {"IS_ARRAY"},
          <<"STREAM_GROUP_SUBPIECE">>,
          "subpiece", "NULL", "NULL"))
    @@ ("STREAM_GROUP_SUBPIECE" :> Sec("subpiece", {"HAS_VARIABLE_FIELDS", "HAS_TYPE"},
          <<"STREAM_GROUP_BLOCKS">>,
          "subpiece_entry", "NULL", "get_raw_string_type"))
    @@ ("STREAM_GROUP_BLOCKS" :> Sec("blocks", {"IS_ARRAY"},
          <<"STREAM_GROUP_BLOCK">>,
          "block", "NULL", "NULL"))
    @@ ("STREAM_GROUP_BLOCK" :> Sec("block", {"HAS_VARIABLE_FIELDS", "HAS_TYPE"},
          <<>>,
          "block_entry", "NULL", "get_raw_string_type"))
    @@ ("STREAM_GROUP_STREAMS" :> Sec("streams", {"IS_ARRAY"},
          <<"STREAM_GROUP_STREAM">>,
          "NULL", "stream_group_streams", "NULL"))
    @@ ("STREAM_GROUP_STREAM" :> Sec("stream", {},
          <<"STREAM_GROUP_STREAM_DISPOSITION", "STREAM_GROUP_STREAM_TAGS">>,
          "NULL", "stream_group_stream", "NULL"))
    @@ ("STREAM_GROUP_DISPOSITION" :> Sec("disposition", {},
          <<>>,
          "NULL", "stream_group_disposition", "NULL"))
    @@ ("STREAM_GROUP_TAGS" :> Sec("tags", {"HAS_VARIABLE_FIELDS"},
          <<>>,
          "tag", "stream_group_tags", "NULL"))
    @@ ("STREAM_GROUPS" :> Sec("stream_groups", {"IS_ARRAY"},
          <<"STREAM_GROUP">>,
          "NULL", "NULL", "NULL"))
    @@ ("ROOT" :> Sec("root", {"IS_WRAPPER"},
          <<"CHAPTERS", "FORMAT", "FRAMES", "PROGRAMS", "STREAM_GROUPS", "STREAMS", "PACKETS", "ERROR", "PROGRAM_VERSION", "LIBRARY_VERSIONS", "PIXEL_FORMATS">>,
          "NULL", "NULL", "NULL"))
    @@ ("STREAMS" :> Sec("streams", {"IS_ARRAY"},
          <<"STREAM">>,
          "NULL", "NULL", "NULL"))
    @@ ("STREAM" :> Sec("stream", {},
          <<"STREAM_DISPOSITION", "STREAM_TAGS", "STREAM_SIDE_DATA_LIST">>,
          "NULL", "NULL", "NULL"))
    @@ ("STREAM_DISPOSITION" :> Sec("disposition", {},
          <<>>,
          "NULL", "stream_disposition", "NULL"))
    @@ ("STREAM_TAGS" :> Sec("tags", {"HAS_VARIABLE_FIELDS"},
          <<>>,
          "tag", "stream_tags", "NULL"))
    @@ ("STREAM_SIDE_DATA_LIST" :> Sec("side_data_list", {"IS_ARRAY"},
          <<"STREAM_SIDE_DATA">>,
          "side_data", "stream_side_data_list", "NULL"))
    @@ ("STREAM_SIDE_DATA" :> Sec("side_data", {"HAS_TYPE", "HAS_VARIABLE_FIELDS"},
          <<>>,
          "side_datum", "stream_side_data", "get_packet_side_data_type"))
    @@ ("SUBTITLE" :> Sec("subtitle", {},
          <<>>,
          "NULL", "NULL", "NULL"))

SECTION_MAX_NB_LEVELS == 12

SHOW_OPTIONAL_FIELDS_AUTO == -1

SHOW_OPTIONAL_FIELDS_NEVER == 0

SHOW_OPTIONAL_FIELDS_ALWAYS == 1

PRINT_STRING_OPT == "PRINT_STRING_OPT"

PRINT_STRING_VALIDATE == "PRINT_STRING_VALIDATE"

WRITER_FLAG_DISPLAY_OPTIONAL_FIELDS == "DISPLAY_OPTIONAL_FIELDS"

WRITER_FLAG_PUT_PACKETS_AND_FRAMES_IN_SAME_CHAPTER == "PUT_PACKETS_AND_FRAMES_IN_SAME_CHAPTER"

\* enum StringValidation
StringValidation == { "FAIL", "REPLACE", "IGNORE" }

AVERROR_INVALIDDATA == -1094995529

AV_UTF8_FLAG_EXCLUDE_XML_INVALID_CONTROL_CODES == "EXCLUDE_XML_INVALID_CONTROL_CODES"

(* ---------------------------------------------------------------- *)
(* Format backends: the Writer structs                              *)
(* ---------------------------------------------------------------- *)

\* one struct Writer: which hooks are set (TRUE) or left NULL (FALSE), and flags
Wr(header, footer, flags) ==
    [ print_section_header |-> header, print_section_footer |-> footer,
      flags |-> flags ]

default_writer == Wr(TRUE, TRUE, {WRITER_FLAG_DISPLAY_OPTIONAL_FIELDS})

compact_writer == Wr(TRUE, TRUE, {WRITER_FLAG_DISPLAY_OPTIONAL_FIELDS})

csv_writer == Wr(TRUE, TRUE, {WRITER_FLAG_DISPLAY_OPTIONAL_FIELDS})

flat_writer ==
    Wr(TRUE, FALSE, {WRITER_FLAG_DISPLAY_OPTIONAL_FIELDS,
                     WRITER_FLAG_PUT_PACKETS_AND_FRAMES_IN_SAME_CHAPTER})

ini_writer ==
    Wr(TRUE, FALSE, {WRITER_FLAG_DISPLAY_OPTIONAL_FIELDS,
                     WRITER_FLAG_PUT_PACKETS_AND_FRAMES_IN_SAME_CHAPTER})

json_writer == Wr(TRUE, TRUE, {WRITER_FLAG_PUT_PACKETS_AND_FRAMES_IN_SAME_CHAPTER})

xml_writer == Wr(TRUE, TRUE, {WRITER_FLAG_PUT_PACKETS_AND_FRAMES_IN_SAME_CHAPTER})

\* writer_register_all: the writers by name
registered_writers ==
    ("default" :> default_writer) @@ ("compact" :> compact_writer)
    @@ ("csv" :> csv_writer) @@ ("flat" :> flat_writer)
    @@ ("ini" :> ini_writer) @@ ("json" :> json_writer)
    @@ ("xml" :> xml_writer)

WriterNames == DOMAIN registered_writers

(* ---------------------------------------------------------------- *)
(* Show-entries filters                                             *)
(* ---------------------------------------------------------------- *)

\* av_dict_copy(&dst, src, 0) on dictionaries whose values are all "":
\* every entry of src is set in dst, the other entries of dst stay
av_dict_copy(dst, src) == dst \cup src

\* the filter part of sections[] before any option is parsed
NoFilter ==
    [ show_all_entries |-> [id \in SectionID |-> FALSE],
      entries_to_show  |-> [id \in SectionID |-> {}] ]

RECURSIVE marked_sections(_)
\* the sections the recursion of mark_section_show_entries visits when
\* show_all_entries is set: section_id and, through children_ids, all below it
marked_sections(section_id) ==
    {section_id} \cup
    UNION { marked_sections(sections[section_id].children_ids[i]) :
                i \in 1..Len(sections[section_id].children_ids) }

\* a show-all request that stops at the direct children
mark_section_show_entries_direct(f, section_id, show_all_entries, entries) ==
    IF show_all_entries
    THEN [f EXCEPT !.show_all_entries =
              [id \in SectionID |->
                  IF \/ id = section_id
                     \/ \E i \in DOMAIN sections[section_id].children_ids :
                            sections[section_id].children_ids[i] = id
                  THEN TRUE ELSE @[id]]]
    ELSE [f EXCEPT !.show_all_entries[section_id] = FALSE,
                   !.entries_to_show[section_id] = av_dict_copy(@, entries)]

\* a show-entries request that also hands the entries to the children
mark_section_show_entries_children(f, section_id, show_all_entries, entries) ==
    IF show_all_entries
    THEN [f EXCEPT !.show_all_entries =
              [id \in SectionID |-> IF id \in marked_sections(section_id)
                                    THEN TRUE ELSE @[id]]]
    ELSE [f EXCEPT !.show_all_entries[section_id] = FALSE,
                   !.entries_to_show =
              [id \in SectionID |-> IF id \in marked_sections(section_id)
                                    THEN av_dict_copy(@[id], entries) ELSE @[id]]]

mark_section_show_entries(f, section_id, show_all_entries, entries) ==
    IF show_all_entries
    THEN [f EXCEPT !.show_all_entries =
              [id \in SectionID |-> IF id \in marked_sections(section_id)
                                    THEN TRUE ELSE @[id]]]
    ELSE [f EXCEPT !.show_all_entries[section_id] = FALSE,
                   !.entries_to_show[section_id] = av_dict_copy(@, entries)]

\* a filter test that lets every key through while the section has neither
\* the show-all flag nor entries
show_entry_unset_shows(f, section_id, key) ==
    \/ f.show_all_entries[section_id] \/ key \in f.entries_to_show[section_id]
    \/ (~f.show_all_entries[section_id] /\ f.entries_to_show[section_id] = {})

\* the test both writer_print_integer and writer_print_string make
show_entry(f, section_id, key) ==
    f.show_all_entries[section_id] \/ key \in f.entries_to_show[section_id]

(* ---------------------------------------------------------------- *)
(* String validator                                                 *)
(* ---------------------------------------------------------------- *)

\* number of 10xx-xxxx bytes announced by a first byte (the while (code & top) loop)
utf8_tail_len(b) ==
    IF b < 192 THEN 0 ELSE IF b < 224 THEN 1 ELSE IF b < 240 THEN 2
    ELSE IF b < 248 THEN 3 ELSE IF b < 252 THEN 4 ELSE 5

Pow64(n) == IF n = 0 THEN 1 ELSE IF n = 1 THEN 64 ELSE IF n = 2 THEN 4096
            ELSE IF n = 3 THEN 262144 ELSE IF n = 4 THEN 16777216 ELSE 1073741824

Pow2(n) == IF n = 0 THEN 1 ELSE IF n = 1 THEN 2 ELSE IF n = 2 THEN 4
           ELSE IF n = 3 THEN 8 ELSE IF n = 4 THEN 16 ELSE 32

overlong_encoding_mins == <<0, 128, 2048, 65536, 2097152, 67108864>>

RECURSIVE utf8_tail_code(_, _, _)
\* the code accumulated over the n tail bytes that start at s[i]
utf8_tail_code(s, i, n) ==
    IF n = 0 THEN 0
    ELSE (s[i] - 128) * Pow64(n - 1) + utf8_tail_code(s, i + 1, n - 1)

\* the checks av_utf8_decode makes on a decoded code
utf8_check_code(code, tail_len, flags) ==
    IF \/ code < overlong_encoding_mins[tail_len + 1]
       \/ code > 1114111
       \/ /\ code < 32 /\ code \notin {9, 10, 13}
          /\ AV_UTF8_FLAG_EXCLUDE_XML_INVALID_CONTROL_CODES \in flags
       \/ (code >= 55296 /\ code <= 57343)
       \/ code \in {65534, 65535}
    THEN [ret |-> -1, n |-> 1 + tail_len]
    ELSE [ret |-> 0, n |-> 1 + tail_len]

\* av_utf8_decode once the first byte b announced tail_len tail bytes
utf8_decode_tail(s, i, flags, b, tail_len) ==
    IF (b >= 128 /\ b < 192) \/ b >= 254
    THEN [ret |-> -1, n |-> 1]
    ELSE IF ~(/\ i + tail_len <= Len(s)
              /\ \A k \in 1..tail_len : s[i + k] >= 128 /\ s[i + k] < 192)
    THEN [ret |-> -1, n |-> 1]
    ELSE utf8_check_code(IF tail_len = 0 THEN b
                         ELSE (b % Pow2(6 - tail_len)) * Pow64(tail_len)
                              + utf8_tail_code(s, i + 1, tail_len),
                         tail_len, flags)

\* av_utf8_decode on the bytes of s from position i (1-based) to the end:
\* ret is 0 or negative (EILSEQ), n the number of bytes *bufp advanced by
av_utf8_decode(s, i, flags) ==
    utf8_decode_tail(s, i, flags, s[i], utf8_tail_len(s[i]))

\* the log lines a call has produced, counted per level
NoLog == [debug |-> 0, warning |-> 0, error |-> 0]

AddLog(l, m) ==
    [debug |-> l.debug + m.debug, warning |-> l.warning + m.warning,
     error |-> l.error + m.error]

\* a loop body that under REPLACE writes the replacement and then the
\* rejected bytes as well
validate_chunk_keep(w, a, invalid, seg) ==
    LET lg == IF invalid THEN [a.log EXCEPT !.debug = @ + 1] ELSE a.log
    IN  IF invalid /\ w.string_validation = "FAIL"
        THEN [a EXCEPT !.invalid_chars_nb = @ + 1,
                       !.ret = AVERROR_INVALIDDATA,
                       !.log = [lg EXCEPT !.error = @ + 1],
                       !.stop = TRUE]
        ELSE
        LET d1 == IF invalid /\ w.string_validation = "REPLACE"
                  THEN a.dstbuf \o w.string_validation_replacement
                  ELSE a.dstbuf
        IN  [a EXCEPT !.dstbuf = d1 \o seg,
                      !.invalid_chars_nb = IF invalid THEN @ + 1 ELSE @,
                      !.log = lg]

\* a loop body that leaves the rejected bytes out under IGNORE as well
validate_chunk_drop(w, a, invalid, seg) ==
    LET lg == IF invalid THEN [a.log EXCEPT !.debug = @ + 1] ELSE a.log
    IN  IF invalid /\ w.string_validation = "FAIL"
        THEN [a EXCEPT !.invalid_chars_nb = @ + 1,
                       !.ret = AVERROR_INVALIDDATA,
                       !.log = [lg EXCEPT !.error = @ + 1],
                       !.stop = TRUE]
        ELSE
        LET d1 == IF invalid /\ w.string_validation = "REPLACE"
                  THEN a.dstbuf \o w.string_validation_replacement
                  ELSE a.dstbuf
            d2 == IF ~invalid THEN d1 \o seg ELSE d1
        IN  [a EXCEPT !.dstbuf = d2,
                      !.invalid_chars_nb = IF invalid THEN @ + 1 ELSE @,
                      !.log = lg]

\* the body of the for loop of validate_string once av_utf8_decode has run:
\* a is the loop state [dstbuf, invalid_chars_nb, ret, log, stop], seg the
\* bytes p0 .. p-1 and invalid whether the decoder rejected them
validate_chunk(w, a, invalid, seg) ==
    LET lg == IF invalid THEN [a.log EXCEPT !.debug = @ + 1] ELSE a.log
    IN  IF invalid /\ w.string_validation = "FAIL"
        THEN [a EXCEPT !.invalid_chars_nb = @ + 1,
                       !.ret = AVERROR_INVALIDDATA,
                       !.log = [lg EXCEPT !.error = @ + 1],
                       !.stop = TRUE]
        ELSE
        LET d1 == IF invalid /\ w.string_validation = "REPLACE"
                  THEN a.dstbuf \o w.string_validation_replacement
                  ELSE a.dstbuf
            d2 == IF ~invalid \/ w.string_validation = "IGNORE"
                  THEN d1 \o seg ELSE d1
        IN  [a EXCEPT !.dstbuf = d2,
                      !.invalid_chars_nb = IF invalid THEN @ + 1 ELSE @,
                      !.log = lg]

RECURSIVE validate_loop(_, _, _, _)
\* one turn of the for loop of validate_string: d is what av_utf8_decode
\* returned for the bytes at position i
validate_step(w, src, i, a, d) ==
    validate_loop(w, src, i + d.n,
        validate_chunk(w, a, d.ret < 0, SubSeq(src, i, i + d.n - 1)))

\* the for (p = src; *p;) loop of validate_string, p at position i of src
validate_loop(w, src, i, a) ==
    IF a.stop \/ i > Len(src) THEN a
    ELSE validate_step(w, src, i, a,
             av_utf8_decode(src, i, w.string_validation_utf8_flags))

\* validate_string after the loop, which left a: the warning and the result
validate_end(w, a) ==
    [ ret |-> a.ret, dst |-> a.dstbuf,
      invalid_chars_nb |-> a.invalid_chars_nb,
      log |-> IF a.invalid_chars_nb # 0 /\ w.string_validation = "REPLACE"
              THEN [a.log EXCEPT !.warning = @ + 1] ELSE a.log ]

\* validate_string(wctx, &dst, src): [ret, dst, invalid_chars_nb, log]
validate_string(w, src) ==
    validate_end(w, validate_loop(w, src, 1,
                        [dstbuf |-> << >>, invalid_chars_nb |-> 0, ret |-> 0,
                         log |-> NoLog, stop |-> FALSE]))
(* ---------------------------------------------------------------- *)
(* Writer cursor                                                    *)
(* ---------------------------------------------------------------- *)

Levels == 0 .. (SECTION_MAX_NB_LEVELS - 1)

\* the WriterContext writer_open leaves behind (av_mallocz, level = -1, the
\* options); main adds the XML flag when the writer is xml_writer
writer_open(name, string_validation, replacement) ==
    [ writer |-> name,
      level |-> -1,
      nb_item |-> [l \in Levels |-> 0],
      section |-> [l \in Levels |-> SECTION_ID_NONE],
      nb_section_packet |-> 0,
      nb_section_frame |-> 0,
      nb_section_packet_frame |-> 0,
      string_validation |-> string_validation,
      string_validation_replacement |-> replacement,
      string_validation_utf8_flags |->
          IF name = "xml" THEN {AV_UTF8_FLAG_EXCLUDE_XML_INVALID_CONTROL_CODES}
          ELSE {} ]

\* what the active backend and the sink have seen: the calls of each hook, the
\* item of the last print_integer / print_string call, and whether a write was
\* issued while the sink could not be written
NoBackend ==
    [ hdr_calls |-> 0, ftr_calls |-> 0, nb_print |-> 0, last |-> << >>,
      sink_broken |-> FALSE, write_failed |-> FALSE ]

\* a cursor state: WriterContext, backend/sink observations, log lines, and
\* how the process stands ("no": running, "assert": av_assert0 aborted it,
\* "crash"/"ub": an out-of-bounds access happened)
Cursor(w, b, log, halt) == [w |-> w, b |-> b, log |-> log, halt |-> halt]

\* wctx->writer->print_integer / print_string: every backend writes the item
backend_print(b, kind, key, val) ==
    [b EXCEPT !.nb_print = @ + 1,
              !.last = <<kind, key, val>>,
              !.write_failed = @ \/ b.sink_broken]

\* a section header that also asserts section_id is one of the children_ids
\* of the section it is opened in
writer_print_section_header_listed(c, section_id) ==
    LET level == c.w.level + 1
        listed == \E i \in DOMAIN sections[c.w.section[level - 1]].children_ids :
                      sections[c.w.section[level - 1]].children_ids[i] = section_id
    IN  IF ~(level < SECTION_MAX_NB_LEVELS) \/ (level > 0 /\ ~listed)
        THEN [c EXCEPT !.w.level = level, !.halt = "assert"]
        ELSE
        LET parent_section_id ==
                IF level # 0 THEN c.w.section[level - 1] ELSE SECTION_ID_NONE
            w1 == [c.w EXCEPT !.level = level,
                              !.nb_item[level] = 0,
                              !.section[level] = section_id]
            w2 == IF section_id = "PACKETS_AND_FRAMES"
                  THEN [w1 EXCEPT !.nb_section_packet = 0,
                                  !.nb_section_frame = 0,
                                  !.nb_section_packet_frame = 0]
                  ELSE IF parent_section_id = "PACKETS_AND_FRAMES"
                  THEN [w1 EXCEPT !.nb_section_packet_frame =
                            IF section_id = "PACKET" THEN w1.nb_section_packet
                            ELSE w1.nb_section_frame]
                  ELSE w1
            b1 == IF registered_writers[c.w.writer].print_section_header
                  THEN [c.b EXCEPT !.hdr_calls = @ + 1] ELSE c.b
        IN  [c EXCEPT !.w = w2, !.b = b1]

writer_print_section_header(c, section_id) ==
    LET level == c.w.level + 1
    IN  IF ~(level < SECTION_MAX_NB_LEVELS)
        THEN [c EXCEPT !.w.level = level, !.halt = "assert"]
        ELSE
        LET parent_section_id ==
                IF level # 0 THEN c.w.section[level - 1] ELSE SECTION_ID_NONE
            w1 == [c.w EXCEPT !.level = level,
                              !.nb_item[level] = 0,
                              !.section[level] = section_id]
            w2 == IF section_id = "PACKETS_AND_FRAMES"
                  THEN [w1 EXCEPT !.nb_section_packet = 0,
                                  !.nb_section_frame = 0,
                                  !.nb_section_packet_frame = 0]
                  ELSE IF parent_section_id = "PACKETS_AND_FRAMES"
                  THEN [w1 EXCEPT !.nb_section_packet_frame =
                            IF section_id = "PACKET" THEN w1.nb_section_packet
                            ELSE w1.nb_section_frame]
                  ELSE w1
            b1 == IF registered_writers[c.w.writer].print_section_header
                  THEN [c.b EXCEPT !.hdr_calls = @ + 1] ELSE c.b
        IN  [c EXCEPT !.w = w2, !.b = b1]

\* outcomes of the out-of-bounds read wctx->section[wctx->level] with level < 0
UBOutcomes == { "crash", "continue" }

\* a section footer that skips the backend hook for the sections below Root
writer_print_section_footer_nohook(c, ub) ==
    IF c.w.level < 0
    THEN IF ub = "crash" THEN [c EXCEPT !.halt = "crash"]
         ELSE [c EXCEPT !.w.level = @ - 1, !.halt = "ub"]
    ELSE
    LET level == c.w.level
        section_id == c.w.section[level]
        parent_section_id ==
            IF level # 0 THEN c.w.section[level - 1] ELSE SECTION_ID_NONE
        w1 == IF parent_section_id # SECTION_ID_NONE
              THEN [c.w EXCEPT !.nb_item[level - 1] = @ + 1] ELSE c.w
        w2 == IF parent_section_id = "PACKETS_AND_FRAMES"
              THEN IF section_id = "PACKET"
                   THEN [w1 EXCEPT !.nb_section_packet = @ + 1]
                   ELSE [w1 EXCEPT !.nb_section_frame = @ + 1]
              ELSE w1
        b1 == IF registered_writers[c.w.writer].print_section_footer /\ level # 1
              THEN [c.b EXCEPT !.ftr_calls = @ + 1] ELSE c.b
    IN  [c EXCEPT !.w = [w2 EXCEPT !.level = level - 1], !.b = b1]

\* a section footer that counts only packets and frames, not the subtitles
\* of the combined array
writer_print_section_footer_no_subtitle(c, ub) ==
    IF c.w.level < 0
    THEN IF ub = "crash" THEN [c EXCEPT !.halt = "crash"]
         ELSE [c EXCEPT !.w.level = @ - 1, !.halt = "ub"]
    ELSE
    LET level == c.w.level
        section_id == c.w.section[level]
        parent_section_id ==
            IF level # 0 THEN c.w.section[level - 1] ELSE SECTION_ID_NONE
        w1 == IF parent_section_id # SECTION_ID_NONE
              THEN [c.w EXCEPT !.nb_item[level - 1] = @ + 1] ELSE c.w
        w2 == IF parent_section_id = "PACKETS_AND_FRAMES"
              THEN IF section_id = "PACKET"
                   THEN [w1 EXCEPT !.nb_section_packet = @ + 1]
                   ELSE IF section_id = "FRAME"
                   THEN [w1 EXCEPT !.nb_section_frame = @ + 1]
                   ELSE w1
              ELSE w1
        b1 == IF registered_writers[c.w.writer].print_section_footer
              THEN [c.b EXCEPT !.ftr_calls = @ + 1] ELSE c.b
    IN  [c EXCEPT !.w = [w2 EXCEPT !.level = level - 1], !.b = b1]

writer_print_section_footer(c, ub) ==
    IF c.w.level < 0
    THEN IF ub = "crash" THEN [c EXCEPT !.halt = "crash"]
         ELSE [c EXCEPT !.w.level = @ - 1, !.halt = "ub"]
    ELSE
    LET level == c.w.level
        section_id == c.w.section[level]
        parent_section_id ==
            IF level # 0 THEN c.w.section[level - 1] ELSE SECTION_ID_NONE
        w1 == IF parent_section_id # SECTION_ID_NONE
              THEN [c.w EXCEPT !.nb_item[level - 1] = @ + 1] ELSE c.w
        w2 == IF parent_section_id = "PACKETS_AND_FRAMES"
              THEN IF section_id = "PACKET"
                   THEN [w1 EXCEPT !.nb_section_packet = @ + 1]
                   ELSE [w1 EXCEPT !.nb_section_frame = @ + 1]
              ELSE w1
        b1 == IF registered_writers[c.w.writer].print_section_footer
              THEN [c.b EXCEPT !.ftr_calls = @ + 1] ELSE c.b
    IN  [c EXCEPT !.w = [w2 EXCEPT !.level = level - 1], !.b = b1]

\* writer_print_integer; f is the filter part of sections[]
writer_print_integer(c, f, key, val) ==
    LET level == c.w.level
        section == c.w.section[level]
    IN  IF show_entry(f, section, key)
        THEN [c EXCEPT !.b = backend_print(c.b, "int", key, val),
                       !.w.nb_item[level] = @ + 1]
        ELSE c

\* a PRINT_STRING_VALIDATE branch that hands the backend the key and what
\* the validator kept of a rejected value
writer_print_string_validated_partial(c, k, v) ==
    IF k.ret < 0
    THEN [c |-> [c EXCEPT !.log = [AddLog(c.log, k.log) EXCEPT !.error = @ + 1],
                          !.w.nb_item[c.w.level] = @ + 1],
          ret |-> k.ret]
    ELSE [c |-> [c EXCEPT !.b = backend_print(c.b, "str", k.dst, v.dst),
                          !.log = AddLog(AddLog(c.log, k.log), v.log),
                          !.w.nb_item[c.w.level] = @ + 1],
          ret |-> v.ret]

\* the PRINT_STRING_VALIDATE branch of writer_print_string: k and v are what
\* validate_string returned for the key and (if the key passed) the value
writer_print_string_validated(c, k, v) ==
    IF k.ret < 0
    THEN [c |-> [c EXCEPT !.log = [AddLog(c.log, k.log) EXCEPT !.error = @ + 1],
                          !.w.nb_item[c.w.level] = @ + 1],
          ret |-> k.ret]
    ELSE IF v.ret < 0
    THEN [c |-> [c EXCEPT !.log = [AddLog(AddLog(c.log, k.log), v.log)
                                       EXCEPT !.error = @ + 1],
                          !.w.nb_item[c.w.level] = @ + 1],
          ret |-> v.ret]
    ELSE [c |-> [c EXCEPT !.b = backend_print(c.b, "str", k.dst, v.dst),
                          !.log = AddLog(AddLog(c.log, k.log), v.log),
                          !.w.nb_item[c.w.level] = @ + 1],
          ret |-> 0]

\* a writer_print_string whose Auto policy does not look at the flags of the
\* backend: an optional field is shown by every backend
writer_print_string_anybackend(c, f, sof, key, val, flags) ==
    IF sof = SHOW_OPTIONAL_FIELDS_NEVER
    THEN [c |-> c, ret |-> 0]
    ELSE IF ~show_entry(f, c.w.section[c.w.level], key)
    THEN [c |-> c, ret |-> 0]
    ELSE IF PRINT_STRING_VALIDATE \in flags
    THEN writer_print_string_validated(c, validate_string(c.w, key),
                                       validate_string(c.w, val))
    ELSE [c |-> [c EXCEPT !.b = backend_print(c.b, "str", key, val),
                          !.w.nb_item[c.w.level] = @ + 1],
          ret |-> 0]

\* writer_print_string: [c, ret]; sof is show_optional_fields
writer_print_string(c, f, sof, key, val, flags) ==
    IF \/ sof = SHOW_OPTIONAL_FIELDS_NEVER
       \/ /\ sof = SHOW_OPTIONAL_FIELDS_AUTO
          /\ PRINT_STRING_OPT \in flags
          /\ WRITER_FLAG_DISPLAY_OPTIONAL_FIELDS
                 \notin registered_writers[c.w.writer].flags
    THEN [c |-> c, ret |-> 0]
    ELSE IF ~show_entry(f, c.w.section[c.w.level], key)
    THEN [c |-> c, ret |-> 0]
    ELSE IF PRINT_STRING_VALIDATE \in flags
    THEN writer_print_string_validated(c, validate_string(c.w, key),
                                       validate_string(c.w, val))
    ELSE [c |-> [c EXCEPT !.b = backend_print(c.b, "str", key, val),
                          !.w.nb_item[c.w.level] = @ + 1],
          ret |-> 0]
(* ---------------------------------------------------------------- *)
(* State                                                            *)
(* ---------------------------------------------------------------- *)

VARIABLES
    wctx,                   \* the WriterContext
    bk,                     \* backend hook calls and sink status
    log,                    \* log lines of the last call, per level
    halt,                   \* "no", or how the process was stopped
    show_optional_fields,   \* the global of that name
    filt,                   \* show_all_entries / entries_to_show of sections[]
    call,                   \* the last call made and what it returned
    run                     \* the producer: options, input file, position

vars == <<wctx, bk, log, halt, show_optional_fields, filt, call, run>>

(* ---------------------------------------------------------------- *)
(* Inputs                                                           *)
(* ---------------------------------------------------------------- *)

\* byte strings: field keys "a", "b", "c" and a key with an invalid byte
KeyA == <<97>>

KeyB == <<98>>

KeyC == <<99>>

KeyBad == <<255>>

Keys == { KeyA, KeyB, KeyC }

\* field values: "A", and "A" followed by the invalid byte 0xFF
ValGood == <<65>>

ValBad == <<65, 255>>

Vals == { ValGood, ValBad }

\* the replacement text "?" (-svr)
Replacement == <<63>>

\* sections the caller opens below Root
DriverIds == { "FORMAT", "FORMAT_TAGS" }

\* items emitted or children opened in one section
MaxItems == 2

\* string emits the caller makes: plain and optional fields with a valid
\* value, validated fields with valid and invalid keys and values
StringInputs ==
    { <<k, ValGood, fl>> : k \in Keys, fl \in { {}, {PRINT_STRING_OPT} } }
    \cup { <<k, v, {PRINT_STRING_VALIDATE}>> : k \in {KeyA, KeyC, KeyBad}, v \in Vals }

RECURSIVE mark_all(_, _, _, _)
\* one show-entries request per section of ids (a sequence)
mark_all(f, ids, show_all_entries, entries) ==
    IF ids = << >> THEN f
    ELSE mark_all(mark_section_show_entries(f, Head(ids), show_all_entries, entries),
                  Tail(ids), show_all_entries, entries)

\* filters the option parser can leave behind: everything below Root
\* requested whole, entries a and b requested for the sections the caller opens
InitFilters ==
    { mark_all(NoFilter, <<"ROOT">>, TRUE, {}),
      mark_all(NoFilter, <<"ROOT", "FORMAT", "FORMAT_TAGS">>,
               FALSE, {KeyA, KeyB}) }

\* no call yet; opens and closes count the open_section and close_section
\* calls made so far
NoCall ==
    [ op |-> "none", id |-> SECTION_ID_NONE, key |-> << >>, val |-> << >>,
      flags |-> {}, fwd |-> FALSE, ret |-> 0, opens |-> 0, closes |-> 0 ]

\* a call record that keeps the counts of the calls made so far
NewCall(op) == [NoCall EXCEPT !.op = op, !.opens = call.opens, !.closes = call.closes]

NoRun == [ pc |-> "none" ]

cur == Cursor(wctx, bk, log, halt)

\* the variables a cursor state r replaces
Becomes(r) ==
    /\ wctx' = r.w
    /\ bk' = r.b
    /\ log' = r.log
    /\ halt' = r.halt

(* ---------------------------------------------------------------- *)
(* Spec: a caller drives the writer API                             *)
(* ---------------------------------------------------------------- *)

Init ==
    /\ \E name \in WriterNames, sv \in StringValidation :
           wctx = writer_open(name, sv, Replacement)
    /\ bk = NoBackend
    /\ log = NoLog
    /\ halt = "no"
    /\ show_optional_fields \in { SHOW_OPTIONAL_FIELDS_AUTO,
                                  SHOW_OPTIONAL_FIELDS_NEVER,
                                  SHOW_OPTIONAL_FIELDS_ALWAYS }
    /\ filt \in InitFilters
    /\ call = NoCall
    /\ run = NoRun

\* open_section(id)
OpenSection(id) ==
    /\ halt = "no"
    /\ wctx.level >= -1
    /\ Becomes(writer_print_section_header(Cursor(wctx, bk, NoLog, halt), id))
    /\ call' = [NewCall("open") EXCEPT !.id = id, !.opens = @ + 1]
    /\ UNCHANGED <<show_optional_fields, filt, run>>

\* close_section(), also when nothing is open
CloseSection(ub) ==
    /\ halt = "no"
    /\ wctx.level >= 0 => ub = "continue"
    /\ Becomes(writer_print_section_footer(Cursor(wctx, bk, NoLog, halt), ub))
    /\ call' = [NewCall("close") EXCEPT
                    !.closes = @ + 1,
                    !.id = IF wctx.level >= 0 THEN wctx.section[wctx.level]
                           ELSE SECTION_ID_NONE]
    /\ UNCHANGED <<show_optional_fields, filt, run>>

\* emit_integer(key, value): r is what writer_print_integer returned
PrintIntegerDone(r, key) ==
    /\ Becomes(r)
    /\ call' = [NewCall("int") EXCEPT !.key = key,
                                      !.fwd = r.b.nb_print # bk.nb_print]
    /\ UNCHANGED <<show_optional_fields, filt, run>>

PrintInteger(key) ==
    /\ halt = "no"
    /\ wctx.level >= 0
    /\ PrintIntegerDone(
           writer_print_integer(Cursor(wctx, bk, NoLog, halt), filt, key, 7), key)

\* emit_string(key, value, flags): r is what writer_print_string returned
PrintStringDone(r, key, val, flags) ==
    /\ Becomes(r.c)
    /\ call' = [NewCall("str") EXCEPT !.key = key, !.val = val,
                                      !.flags = flags,
                                      !.fwd = r.c.b.nb_print # bk.nb_print,
                                      !.ret = r.ret]
    /\ UNCHANGED <<show_optional_fields, filt, run>>

PrintString(key, val, flags) ==
    /\ halt = "no"
    /\ wctx.level >= 0
    /\ PrintStringDone(
           writer_print_string(Cursor(wctx, bk, NoLog, halt), filt,
                               show_optional_fields, key, val, flags),
           key, val, flags)

\* the caller opens Root once and sections below it one at a time, and emits
\* fields into the section below Root
Next ==
    \/ \E id \in SectionID :
           /\ halt = "no"
           /\ IF wctx.level = -1 THEN id = "ROOT" /\ bk.hdr_calls = 0
              ELSE wctx.level = 0 /\ id \in DriverIds
                   /\ wctx.nb_item[0] < MaxItems
           /\ OpenSection(id)
    \/ /\ wctx.level >= 0
       /\ CloseSection("continue")
    \/ \E key \in Keys :
           /\ wctx.level = 1 /\ wctx.nb_item[1] < MaxItems
           /\ PrintInteger(key)
    \/ \E s \in StringInputs :
           /\ wctx.level = 1 /\ wctx.nb_item[1] < MaxItems
           /\ PrintString(s[1], s[2], s[3])

Spec == Init /\ [][Next]_vars

(* ---------------------------------------------------------------- *)
(* SpecNest: a caller opens and closes sections at any depth        *)
(* ---------------------------------------------------------------- *)

\* sections opened at the levels 1 .. FreeDepth, listed under the open
\* section or not
NestIds == { "FORMAT", "FORMAT_TAGS" }

\* the section opened below FreeDepth, level after level without a close,
\* until the depth limit is hit
ChainId == "FRAME_SIDE_DATA_PIECE"

FreeDepth == 2

InitNest ==
    /\ \E name \in WriterNames : wctx = writer_open(name, "REPLACE", Replacement)
    /\ bk = NoBackend
    /\ log = NoLog
    /\ halt = "no"
    /\ show_optional_fields = SHOW_OPTIONAL_FIELDS_AUTO
    /\ filt = NoFilter
    /\ call = NoCall
    /\ run = NoRun

NextNest ==
    \/ \E id \in SectionID :
           /\ halt = "no"
           /\ IF wctx.level = -1 THEN id = "ROOT" /\ bk.hdr_calls = 0
              ELSE IF wctx.level < FreeDepth
              THEN id \in NestIds /\ wctx.nb_item[wctx.level] < MaxItems
              ELSE id = ChainId /\ wctx.nb_item[wctx.level] = 0
           /\ OpenSection(id)
    \/ \E ub \in UBOutcomes :
           /\ wctx.level <= FreeDepth
           /\ CloseSection(ub)

SpecNest == InitNest /\ [][NextNest]_vars

\* id is one of the children_ids of the section open at the current level
ListedChild(id) ==
    \E i \in DOMAIN sections[wctx.section[wctx.level]].children_ids :
        sections[wctx.section[wctx.level]].children_ids[i] = id

\* a step that opens, below an open section, an id its children_ids lacks
IllegalOpen ==
    /\ call'.op = "open"
    /\ wctx.level >= 0
    /\ ~ListedChild(call'.id)

OnlyRootOpen == halt = "no" /\ call.opens >= 1 /\ call.opens - call.closes = 1

\* C2 as stated: once every open after Root's is matched by a close, level
\* is 0 again and every backend has received as many section-open as
\* section-close notifications (Root's own open not counted).
C2_BalancedAllBackends ==
    OnlyRootOpen => (wctx.level = 0 /\ bk.hdr_calls - 1 = bk.ftr_calls)

\* C2 amended: once every open after Root's is matched by a close, level is
\* 0 again; the backends that define a section-close hook (default, compact,
\* csv, json, xml) have received as many open as close notifications, while
\* flat and ini define none and have received no close notification at all.
C2_Balanced ==
    OnlyRootOpen =>
        /\ wctx.level = 0
        /\ bk.hdr_calls = call.opens
        /\ IF wctx.writer \in {"flat", "ini"}
           THEN bk.ftr_calls = 0
           ELSE bk.hdr_calls - 1 = bk.ftr_calls

\* back at Root after two sections were opened and closed
C2_Witness ==
    /\ OnlyRootOpen
    /\ call.op = "close"
    /\ call.closes >= 2

\* C9 as stated: close_section with no section open is detected and fails
\* fast, without reading the section stack and without moving level.
C9_IdleCloseDetected ==
    [][(call'.op = "close" /\ wctx.level < 0) =>
          (halt' = "assert" /\ wctx'.level = wctx.level)]_vars

(* ---------------------------------------------------------------- *)
(* Claims on the emit calls (Spec)                                  *)
(* ---------------------------------------------------------------- *)

\* the section the last emit call wrote into (an emit leaves level alone)
EmitSection == wctx.section[wctx.level]

\* the last call emitted a field into a section whose filter is exactly
\* show_all_entries = false, entries_to_show = {a, b}
EmitUnderFilterAB ==
    /\ call.op \in {"int", "str"}
    /\ ~filt.show_all_entries[EmitSection]
    /\ filt.entries_to_show[EmitSection] = {KeyA, KeyB}

\* C3 as stated: in a section with show_all_entries false and
\* entries_to_show {a, b}, a field a, b or c emitted as an integer or as a
\* plain string is forwarded to the backend exactly when it is a or b.
C3_FilterExact ==
    (EmitUnderFilterAB /\ call.key \in Keys /\ call.flags = {})
        => (call.fwd <=> call.key \in {KeyA, KeyB})

\* C4 as stated: a string field emitted without the OPTIONAL flag that
\* passes the section filter is forwarded under every optional-fields policy.
C4_PolicyOnlyOptional ==
    (/\ call.op = "str"
     /\ call.flags = {}
     /\ show_entry(filt, EmitSection, call.key))
        => call.fwd

\* C7 as stated: an emit call increments item_count[level] exactly when the
\* field is forwarded to the backend, and leaves it unchanged otherwise.
C7_ItemCountIffForwarded ==
    [][call'.op \in {"int", "str"} =>
          /\ wctx'.level = wctx.level
          /\ IF call'.fwd
             THEN wctx'.nb_item[wctx.level] = wctx.nb_item[wctx.level] + 1
             ELSE wctx'.nb_item[wctx.level] = wctx.nb_item[wctx.level]]_vars

(* ---------------------------------------------------------------- *)
(* SpecValidate: validate_string on bounded byte strings            *)
(* ---------------------------------------------------------------- *)

\* a control code, 'A', a two-byte lead, a three-byte lead, a continuation
\* byte, and a byte no UTF-8 sequence contains
Bytes == { 1, 65, 195, 226, 169, 255 }

MaxLen == 3

ByteStrings == UNION { [1..n -> Bytes] : n \in 0..MaxLen }

InitValidate ==
    /\ \E name \in {"default", "xml"}, sv \in StringValidation :
           wctx = writer_open(name, sv, Replacement)
    /\ bk = NoBackend
    /\ log = NoLog
    /\ halt = "no"
    /\ show_optional_fields = SHOW_OPTIONAL_FIELDS_AUTO
    /\ filt = NoFilter
    /\ call = NoCall
    /\ \E s \in ByteStrings : run = [pc |-> "src", src |-> s]

\* validate_string(wctx, &dst, src)
ValidateString ==
    /\ run.pc = "src"
    /\ LET r == validate_string(wctx, run.src)
       IN  /\ run' = [pc |-> "validated", src |-> run.src, dst |-> r.dst,
                      ret |-> r.ret, invalid_chars_nb |-> r.invalid_chars_nb]
           /\ log' = r.log
    /\ UNCHANGED <<wctx, bk, halt, show_optional_fields, filt, call>>

NextValidate == ValidateString

SpecValidate == InitValidate /\ [][NextValidate]_vars

RECURSIVE ValidPart(_, _, _)
\* the bytes of s from position i on that belong to sequences the decoder
\* accepts, in order
ValidPart(s, i, flags) ==
    IF i > Len(s) THEN << >>
    ELSE LET d == av_utf8_decode(s, i, flags)
         IN  (IF d.ret < 0 THEN << >> ELSE SubSeq(s, i, i + d.n - 1))
             \o ValidPart(s, i + d.n, flags)

ValidatedIgnore ==
    run.pc = "validated" /\ wctx.string_validation = "IGNORE"

RECURSIVE ReplacedText(_, _, _, _)
\* s from position i on with every sequence the decoder rejects replaced by
\* the text rep, and the sequences it accepts kept, in order
ReplacedText(s, i, flags, rep) ==
    IF i > Len(s) THEN << >>
    ELSE LET d == av_utf8_decode(s, i, flags)
         IN  (IF d.ret < 0 THEN rep ELSE SubSeq(s, i, i + d.n - 1))
             \o ReplacedText(s, i + d.n, flags, rep)

ValidatedReplace ==
    run.pc = "validated" /\ wctx.string_validation = "REPLACE"

\* C25: under Replace the validated text is the input with each invalid byte
\* sequence replaced by the configured replacement text and every valid code
\* point kept unchanged and in order, and the call succeeds
C25_ReplaceSubstitutes ==
    ValidatedReplace =>
        /\ run.dst = ReplacedText(run.src, 1, wctx.string_validation_utf8_flags,
                                   wctx.string_validation_replacement)
        /\ run.ret = 0

\* "A\xFFA" came out as "A?A"
C25_Witness ==
    /\ ValidatedReplace
    /\ run.src = <<65, 255, 65>>
    /\ run.dst = <<65, 63, 65>>
    /\ run.ret = 0
(* ---------------------------------------------------------------- *)
(* SpecMark: the option handlers configure the show-entries filters *)
(* ---------------------------------------------------------------- *)

\* sections the show options name
MarkIds ==
    { "ROOT", "FORMAT", "FORMAT_TAGS", "STREAMS", "STREAM", "STREAM_TAGS",
      "PACKETS_AND_FRAMES", "FRAME" }

\* entry lists of the show options (NULL is the empty list)
MarkEntries == { {}, {KeyA}, {KeyA, KeyB}, {KeyC} }

MaxMarks == 2

InitMark ==
    /\ wctx = writer_open("default", "REPLACE", Replacement)
    /\ bk = NoBackend
    /\ log = NoLog
    /\ halt = "no"
    /\ show_optional_fields = SHOW_OPTIONAL_FIELDS_AUTO
    /\ filt = NoFilter
    /\ call = NoCall
    /\ run = [pc |-> "options", marks |-> 0, id |-> SECTION_ID_NONE,
              show_all_entries |-> FALSE, entries |-> {}]

\* one call mark_section_show_entries(id, show_all_entries, entries)
MarkSectionShowEntries(id, show_all_entries, entries) ==
    /\ run.pc = "options"
    /\ run.marks < MaxMarks
    /\ filt' = mark_section_show_entries(filt, id, show_all_entries, entries)
    /\ run' = [pc |-> "options", marks |-> run.marks + 1, id |-> id,
               show_all_entries |-> show_all_entries, entries |-> entries]
    /\ UNCHANGED <<wctx, bk, log, halt, show_optional_fields, call>>

NextMark ==
    \E id \in MarkIds, show_all_entries \in BOOLEAN, entries \in MarkEntries :
        /\ show_all_entries => entries = {}
        /\ MarkSectionShowEntries(id, show_all_entries, entries)

SpecMark == InitMark /\ [][NextMark]_vars

\* a step that calls mark_section_show_entries(id, 0, entries)
MarkEntriesStep ==
    /\ run'.pc = "options"
    /\ run'.marks = run.marks + 1
    /\ ~run'.show_all_entries

\* the step leaves the filter of every section but the marked one alone
OthersUnchanged ==
    \A o \in SectionID \ {run'.id} :
        /\ filt'.entries_to_show[o] = filt.entries_to_show[o]
        /\ filt'.show_all_entries[o] = filt.show_all_entries[o]

ChildrenOf(S) ==
    UNION { { sections[s].children_ids[i] : i \in DOMAIN sections[s].children_ids } :
            s \in S }

RECURSIVE ReachableFrom(_)
\* S and everything reachable from S through children_ids
ReachableFrom(S) ==
    IF ChildrenOf(S) \subseteq S THEN S ELSE ReachableFrom(S \cup ChildrenOf(S))

\* the last call was mark_section_show_entries(run.id, 1, ..)
MarkedShowAll ==
    /\ run.pc = "options"
    /\ run.marks >= 1
    /\ run.show_all_entries

\* C26: mark_section_show_entries(id, show_all_entries = 1, ..) sets the
\* show-all flag of id and of every section reachable from id through
\* children_ids, the descendants below the direct children included
C26_ShowAllReachesDescendants ==
    MarkedShowAll =>
        \A d \in ReachableFrom({run.id}) : filt.show_all_entries[d]

\* a show-all request for streams reached the tags of a stream and the
\* side data in its side data list, two and three levels below
C26_Witness ==
    /\ MarkedShowAll
    /\ run.id = "STREAMS"
    /\ "STREAM_SIDE_DATA" \in ReachableFrom({"STREAMS"})
    /\ "STREAM_SIDE_DATA" \notin ChildrenOf(ChildrenOf({"STREAMS"}))
    /\ filt.show_all_entries["STREAM_TAGS"]
    /\ filt.show_all_entries["STREAM_SIDE_DATA"]
(* ---------------------------------------------------------------- *)
(* SpecRun: main probes one input file and exits                    *)
(* ---------------------------------------------------------------- *)

\* "filename"
KeyFilename == <<102, 105, 108, 101, 110, 97, 109, 101>>

\* the fields show_chapters prints for a chapter before its tags: print_int
\* ones, and print_q / print_time ones, which reach writer_print_string with
\* an ASCII rendering of the number and no flags
ChapterFields ==
    << <<"int", <<105, 100>>>>,   \* id
       <<"str", <<116, 105, 109, 101, 95, 98, 97, 115, 101>>>>,   \* time_base
       <<"int", <<115, 116, 97, 114, 116>>>>,   \* start
       <<"str", <<115, 116, 97, 114, 116, 95, 116, 105, 109, 101>>>>,   \* start_time
       <<"int", <<101, 110, 100>>>>,   \* end
       <<"str", <<101, 110, 100, 95, 116, 105, 109, 101>>>> >>   \* end_time

\* the fields show_format prints after filename and before the tags, for an
\* input with a long format name, a known size and a positive bit rate
FormatFields ==
    << <<"int", <<110, 98, 95, 115, 116, 114, 101, 97, 109, 115>>>>,   \* nb_streams
       <<"int", <<110, 98, 95, 112, 114, 111, 103, 114, 97, 109, 115>>>>,   \* nb_programs
       <<"int", <<110, 98, 95, 115, 116, 114, 101, 97, 109, 95, 103, 114, 111, 117, 112, 115>>>>,   \* nb_stream_groups
       <<"str", <<102, 111, 114, 109, 97, 116, 95, 110, 97, 109, 101>>>>,   \* format_name
       <<"str", <<102, 111, 114, 109, 97, 116, 95, 108, 111, 110, 103, 95, 110, 97, 109, 101>>>>,   \* format_long_name
       <<"str", <<115, 116, 97, 114, 116, 95, 116, 105, 109, 101>>>>,   \* start_time
       <<"str", <<100, 117, 114, 97, 116, 105, 111, 110>>>>,   \* duration
       <<"str", <<115, 105, 122, 101>>>>,   \* size
       <<"str", <<98, 105, 116, 95, 114, 97, 116, 101>>>>,   \* bit_rate
       <<"int", <<112, 114, 111, 98, 101, 95, 115, 99, 111, 114, 101>>>> >>   \* probe_score

\* one print_int, or one print_str / print_q / print_time / print_val
print_field(c, f, sof, fd) ==
    IF fd[1] = "int"
    THEN writer_print_integer(c, f, fd[2], 7)
    ELSE writer_print_string(c, f, sof, fd[2], ValGood, {}).c

RECURSIVE print_fields(_, _, _, _)
\* the print_* calls for fields, in order; c1 is the cursor after the first
print_fields(c, f, sof, fields) ==
    IF fields = << >> THEN c
    ELSE CHOOSE r \in { print_fields(c1, f, sof, Tail(fields)) :
                           c1 \in {print_field(c, f, sof, Head(fields))} } : TRUE

\* writer_print_section_footer(w); return ret;
footer_and_return(r) ==
    [c |-> writer_print_section_footer(r.c, "continue"), ret |-> r.ret]

RECURSIVE show_tags_loop(_, _, _, _)
\* the loop condition of show_tags after print_str_validate returned r:
\* break on ret < 0, leave after the last tag
show_tags_next(r, f, sof, tags) ==
    IF r.ret < 0 \/ tags = << >> THEN r
    ELSE show_tags_loop(r.c, f, sof, tags)

\* the while loop of show_tags over the entries of tags (not empty): [c, ret]
show_tags_loop(c, f, sof, tags) ==
    CHOOSE x \in { show_tags_next(r, f, sof, Tail(tags)) :
                      r \in {writer_print_string(c, f, sof, Head(tags)[1],
                                                  Head(tags)[2],
                                                  {PRINT_STRING_VALIDATE})} } : TRUE

\* show_tags: [c, ret]; an AVDictionary without entries is the NULL pointer
show_tags(c, f, sof, tags, section_id) ==
    IF tags = << >> THEN [c |-> c, ret |-> 0]
    ELSE footer_and_return(
             show_tags_loop(writer_print_section_header(c, section_id),
                            f, sof, tags))

\* if (do_show_..._tags) ret = show_tags(...); ret is the value so far
show_tags_if(c, f, sof, tags, section_id, do_show_tags, ret) ==
    IF do_show_tags THEN show_tags(c, f, sof, tags, section_id)
    ELSE [c |-> c, ret |-> ret]

RECURSIVE show_chapters_loop(_, _, _, _, _, _)
\* the end of one turn of the for loop of show_chapters: the chapter's footer
show_chapters_next(t, f, sof, chapters, do_show_chapter_tags) ==
    show_chapters_loop(writer_print_section_footer(t.c, "continue"), f, sof,
                       chapters, do_show_chapter_tags, t.ret)

\* the for loop of show_chapters over the remaining chapters: [c, ret]
show_chapters_loop(c, f, sof, chapters, do_show_chapter_tags, ret) ==
    IF chapters = << >> THEN [c |-> c, ret |-> ret]
    ELSE CHOOSE x \in
             { show_chapters_next(t, f, sof, Tail(chapters), do_show_chapter_tags) :
                   t \in {show_tags_if(
                              print_fields(writer_print_section_header(c, "CHAPTER"),
                                           f, sof, ChapterFields),
                              f, sof, Head(chapters), "CHAPTER_TAGS",
                              do_show_chapter_tags, ret)} } : TRUE

\* show_chapters: [c, ret]; chapters holds the metadata of each chapter
show_chapters(c, f, sof, chapters, do_show_chapter_tags) ==
    footer_and_return(
        show_chapters_loop(writer_print_section_header(c, "CHAPTERS"),
                           f, sof, chapters, do_show_chapter_tags, 0))

\* show_format: [c, ret]
show_format(c, f, sof, url, metadata, do_show_format_tags) ==
    footer_and_return(
        show_tags_if(
            print_fields(
                writer_print_string(writer_print_section_header(c, "FORMAT"),
                                    f, sof, KeyFilename, url,
                                    {PRINT_STRING_VALIDATE}).c,
                f, sof, FormatFields),
            f, sof, metadata, "FORMAT_TAGS", do_show_format_tags, 0))

RECURSIVE check_section_show_entries(_, _)
check_section_show_entries(f, section_id) ==
    \/ f.show_all_entries[section_id]
    \/ f.entries_to_show[section_id] # {}
    \/ \E i \in 1..Len(sections[section_id].children_ids) :
           check_section_show_entries(f, sections[section_id].children_ids[i])

\* avio_flush and avio_close on the output file: the error of an earlier
\* failed write is what avio_close returns
avio_close(b) == IF b.write_failed THEN -5 ELSE 0

\* writer_close: the return value; avio is set when -o named an output file
writer_close(b, avio) == IF avio THEN avio_close(b) ELSE 0

\* tag dictionaries of the input: none, a valid tag, a tag with an invalid
\* value, a tag with an invalid key
TagDicts ==
    { << >>, << <<KeyA, ValGood>> >>, << <<KeyA, ValBad>> >>,
      << <<KeyBad, ValGood>> >> }

MaxChapters == 2

RECURSIVE SeqsUpTo(_, _)
\* sequences over S of length at most n
SeqsUpTo(S, n) ==
    IF n = 0 THEN { << >> }
    ELSE SeqsUpTo(S, n - 1) \cup
         { Append(s, x) : s \in { t \in SeqsUpTo(S, n - 1) : Len(t) = n - 1 },
                          x \in S }

\* the writers probed runs are made with
RunWriters == { "default", "xml" }

\* the state main is in after parse_options and writer_open: -show_chapters
\* and -show_format as given, the do_show_* flags SET_DO_SHOW derives, the
\* output on stdout or in a file (-o), and the opened input
InitRun ==
    /\ \E name \in RunWriters, sv \in StringValidation :
           wctx = writer_open(name, sv, Replacement)
    /\ bk = NoBackend
    /\ log = NoLog
    /\ halt = "no"
    /\ show_optional_fields = SHOW_OPTIONAL_FIELDS_AUTO
    /\ \E opts \in SUBSET {"CHAPTERS", "FORMAT"} :
           filt = IF opts = {} THEN NoFilter
                  ELSE IF opts = {"CHAPTERS"}
                  THEN mark_all(NoFilter, <<"CHAPTERS">>, TRUE, {})
                  ELSE IF opts = {"FORMAT"}
                  THEN mark_all(NoFilter, <<"FORMAT">>, TRUE, {})
                  ELSE mark_all(NoFilter, <<"CHAPTERS", "FORMAT">>, TRUE, {})
    /\ call = NoCall
    /\ \E avio \in BOOLEAN, chapters \in SeqsUpTo(TagDicts, MaxChapters),
          url \in Vals, metadata \in TagDicts :
           run = [ pc |-> "main",
                   avio |-> avio,
                   do_show_chapters |-> check_section_show_entries(filt, "CHAPTERS"),
                   do_show_chapter_tags |-> check_section_show_entries(filt, "CHAPTER_TAGS"),
                   do_show_format |-> check_section_show_entries(filt, "FORMAT"),
                   do_show_format_tags |-> check_section_show_entries(filt, "FORMAT_TAGS"),
                   chapters |-> chapters, url |-> url, metadata |-> metadata,
                   ret |-> 0, input_ret |-> 0, exit |-> 0 ]

\* main: writer_print_section_header(wctx, NULL, SECTION_ID_ROOT), then
\* probe_file up to its first show_* call
MainOpenRoot ==
    /\ run.pc = "main"
    /\ Becomes(writer_print_section_header(cur, "ROOT"))
    /\ run' = [run EXCEPT !.pc = "chapters"]
    /\ UNCHANGED <<show_optional_fields, filt, call>>

\* probe_file after a show_* call returned r: ret = r.ret; CHECK_END sends a
\* negative ret to the end label, otherwise the next show_* call is at pc
ProbeDone(r, pc) ==
    /\ Becomes(r.c)
    /\ run' = [run EXCEPT !.ret = r.ret,
                          !.pc = IF r.ret < 0 THEN "end" ELSE pc]

\* probe_file: if (do_show_chapters) { ret = show_chapters(); CHECK_END; }
ProbeChapters ==
    /\ run.pc = "chapters"
    /\ IF run.do_show_chapters
       THEN ProbeDone(show_chapters(cur, filt, show_optional_fields,
                                    run.chapters, run.do_show_chapter_tags),
                      "format")
       ELSE /\ run' = [run EXCEPT !.pc = "format"]
            /\ UNCHANGED <<wctx, bk, log, halt>>
    /\ UNCHANGED <<show_optional_fields, filt, call>>

\* probe_file: if (do_show_format) { ret = show_format(); CHECK_END; }
ProbeFormat ==
    /\ run.pc = "format"
    /\ IF run.do_show_format
       THEN ProbeDone(show_format(cur, filt, show_optional_fields, run.url,
                                  run.metadata, run.do_show_format_tags),
                      "end")
       ELSE /\ run' = [run EXCEPT !.pc = "end"]
            /\ UNCHANGED <<wctx, bk, log, halt>>
    /\ UNCHANGED <<show_optional_fields, filt, call>>

\* main after the Root footer left c: ret = writer_close(&wctx), the error
\* line if it failed, ret = FFMIN(ret, input_ret), return ret < 0
MainClose(c, ret) ==
    /\ Becomes([c EXCEPT !.log = IF ret < 0 THEN [@ EXCEPT !.error = @ + 1]
                                  ELSE @])
    /\ run' = [run EXCEPT !.pc = "done",
                          !.input_ret = run.ret,
                          !.ret = IF ret > run.ret THEN run.ret ELSE ret,
                          !.exit = IF ret < 0 \/ run.ret < 0 THEN 1 ELSE 0]

\* main after probe_file: input_ret = ret, the Root footer, writer_close and
\* the exit status
MainFinish ==
    /\ run.pc = "end"
    /\ MainClose(writer_print_section_footer(cur, "continue"),
                 writer_close(writer_print_section_footer(cur, "continue").b,
                              run.avio))
    /\ UNCHANGED <<show_optional_fields, filt, call>>

\* the environment: from now on the output sink cannot be written (disk
\* full, reader of the pipe gone)
SinkBreaks ==
    /\ run.pc \in {"main", "chapters", "format"}
    /\ ~bk.sink_broken
    /\ bk' = [bk EXCEPT !.sink_broken = TRUE]
    /\ UNCHANGED <<wctx, log, halt, show_optional_fields, filt, call, run>>

NextRun ==
    \/ MainOpenRoot
    \/ ProbeChapters
    \/ ProbeFormat
    \/ MainFinish
    \/ SinkBreaks

SpecRun == InitRun /\ [][NextRun]_vars

\* C6 as stated: under the Fail mode, a run in which the validator rejected
\* the key or the value of a validated emit_string call, whatever its section
\* and field, ends with a non-zero exit status.
C6_FailTerminatesRun ==
    ( /\ run.pc = "done"
      /\ wctx.string_validation = "FAIL"
      /\ ~bk.write_failed
      /\ log.error > 0 )
    => run.exit # 0

\* C10 as stated: after a write to the output sink failed nothing more is
\* emitted, and the run ends with an error.
C10_WriteFailureStopsRun ==
    [][ /\ bk.write_failed => bk'.nb_print = bk.nb_print
        /\ (run'.pc = "done" /\ bk'.write_failed) => run'.exit # 0 ]_vars

(* ---------------------------------------------------------------- *)
(* SpecUnset: emits into sections no show option has named          *)
(* ---------------------------------------------------------------- *)

\* filters the option parser can leave behind that name some sections and
\* leave others as sections[] initialises them: nothing requested at all,
\* -show_entries format=a,b alone, -show_streams alone
UnsetFilters ==
    { NoFilter,
      mark_section_show_entries(NoFilter, "FORMAT", FALSE, {KeyA, KeyB}),
      mark_section_show_entries(NoFilter, "STREAMS", TRUE, {}) }

InitUnset ==
    /\ \E name \in WriterNames : wctx = writer_open(name, "REPLACE", Replacement)
    /\ bk = NoBackend
    /\ log = NoLog
    /\ halt = "no"
    /\ show_optional_fields \in { SHOW_OPTIONAL_FIELDS_AUTO,
                                  SHOW_OPTIONAL_FIELDS_ALWAYS }
    /\ filt \in UnsetFilters
    /\ call = NoCall
    /\ run = NoRun

SpecUnset == InitUnset /\ [][Next]_vars

\* the filter of the section the last emit wrote into is as sections[]
\* initialises it: show_all_entries 0, entries_to_show NULL
EmitIntoUnset ==
    /\ call.op \in {"int", "str"}
    /\ ~filt.show_all_entries[EmitSection]
    /\ filt.entries_to_show[EmitSection] = {}

\* C11 as stated: every field emitted into a section for which no
\* show-entries request was made passes the filter and is forwarded.
C11_UnsetShowsAll == EmitIntoUnset => call.fwd

\* C11 amended: a section for which no show-entries request was made shows
\* nothing: no field emitted into it is forwarded to the backend, and the
\* call returns 0.
C11_UnsetShowsNothing ==
    EmitIntoUnset => (~call.fwd /\ call.ret = 0)

\* an integer field was emitted into format tags, which no option named
C11_Witness ==
    /\ EmitIntoUnset
    /\ call.op = "int"
    /\ EmitSection = "FORMAT_TAGS"
    /\ filt.entries_to_show["FORMAT"] = {KeyA, KeyB}

(* ---------------------------------------------------------------- *)
(* Backends: what each hook writes                                  *)
(* ---------------------------------------------------------------- *)

\* pieces of formatted text: a literal or a section name (%s of a C string
\* constant), an upcased name, the bytes of a key or value, a %d number,
\* and the "%*c" indentation of JSON_INDENT
Str(s) == [t |-> "str", s |-> s, k |-> << >>, n |-> 0]

Upcase(s) == [t |-> "upcase", s |-> s, k |-> << >>, n |-> 0]

Chars(k) == [t |-> "bytes", s |-> "", k |-> k, n |-> 0]

Num(n) == [t |-> "num", s |-> "", k |-> << >>, n |-> n]

Indent(n) == [t |-> "indent", s |-> "", k |-> << >>, n |-> n]

\* upcase_string of element_name, or of name when element_name is NULL
av_x_if_null(p, x) == IF p = "NULL" THEN x ELSE p

\* (*p >= '0' && *p <= '9') || (*p >= 'a' && *p <= 'z') || (*p >= 'A' && *p <= 'Z')
is_alnum(ch) ==
    \/ ch >= 48 /\ ch <= 57
    \/ ch >= 97 /\ ch <= 122
    \/ ch >= 65 /\ ch <= 90

\* the backend part of a cursor for the backends below: the hook counts of
\* NoBackend, the private context, section_pbuf[] and the text the last
\* call wrote
BackendOf(priv) ==
    [ hdr_calls |-> 0, ftr_calls |-> 0, nb_print |-> 0, last |-> << >>,
      sink_broken |-> FALSE, write_failed |-> FALSE,
      priv |-> priv,
      section_pbuf |-> [l \in Levels |-> << >>],
      out |-> << >> ]

is_wrapper_or_array(section_id) ==
    sections[section_id].flags \cap {"IS_WRAPPER", "IS_ARRAY"} # {}

\* wctx->level ? wctx->section[wctx->level-1] : NULL
parent_of(w) == IF w.level # 0 THEN w.section[w.level - 1] ELSE SECTION_ID_NONE

(* ------------------------------ flat ----------------------------- *)

FlatContext(sep, hierarchical) ==
    [ sep |-> sep, hierarchical |-> hierarchical ]

flat_escape_key_str(src) ==
    [ i \in DOMAIN src |-> IF ~is_alnum(src[i]) THEN 95 ELSE src[i] ]

flat_escape_value_str(src) ==
    LET esc(ch) ==
            IF ch = 10 THEN <<92, 110>>
            ELSE IF ch = 13 THEN <<92, 114>>
            ELSE IF ch = 92 THEN <<92, 92>>
            ELSE IF ch = 34 THEN <<92, 34>>
            ELSE IF ch = 96 THEN <<92, 96>>
            ELSE IF ch = 36 THEN <<92, 36>>
            ELSE <<ch>>
        dst[i \in 0 .. Len(src)] ==
            IF i = 0 THEN << >> ELSE dst[i - 1] \o esc(src[i])
    IN  dst[Len(src)]

\* a section header that numbers the elements of an array from 1
flat_print_section_header_from1(w, b) ==
    IF parent_of(w) = SECTION_ID_NONE
    THEN [w |-> w, b |-> [b EXCEPT !.section_pbuf[w.level] = << >>, !.out = << >>]]
    ELSE
    LET section == w.section[w.level]
        parent_section == parent_of(w)
        buf == b.section_pbuf[w.level - 1]
        n == IF parent_section = "PACKETS_AND_FRAMES"
             THEN w.nb_section_packet_frame ELSE w.nb_item[w.level - 1]
        buf1 == IF b.priv.hierarchical \/ ~is_wrapper_or_array(section)
                THEN buf \o <<Str(sections[section].name), Chars(<<b.priv.sep>>)>>
                     \o (IF "IS_ARRAY" \in sections[parent_section].flags
                         THEN <<Num(n + 1), Chars(<<b.priv.sep>>)>> ELSE << >>)
                ELSE buf
    IN  [w |-> w, b |-> [b EXCEPT !.section_pbuf[w.level] = buf1, !.out = << >>]]

\* a section header that numbers every array element by the item count of
\* the array, whatever the array
flat_print_section_header_shared(w, b) ==
    IF parent_of(w) = SECTION_ID_NONE
    THEN [w |-> w, b |-> [b EXCEPT !.section_pbuf[w.level] = << >>, !.out = << >>]]
    ELSE
    LET section == w.section[w.level]
        parent_section == parent_of(w)
        buf == b.section_pbuf[w.level - 1]
        n == w.nb_item[w.level - 1]
        buf1 == IF b.priv.hierarchical \/ ~is_wrapper_or_array(section)
                THEN buf \o <<Str(sections[section].name), Chars(<<b.priv.sep>>)>>
                     \o (IF "IS_ARRAY" \in sections[parent_section].flags
                         THEN <<Num(n), Chars(<<b.priv.sep>>)>> ELSE << >>)
                ELSE buf
    IN  [w |-> w, b |-> [b EXCEPT !.section_pbuf[w.level] = buf1, !.out = << >>]]

flat_print_section_header(w, b) ==
    IF parent_of(w) = SECTION_ID_NONE
    THEN [w |-> w, b |-> [b EXCEPT !.section_pbuf[w.level] = << >>, !.out = << >>]]
    ELSE
    LET section == w.section[w.level]
        parent_section == parent_of(w)
        buf == b.section_pbuf[w.level - 1]
        n == IF parent_section = "PACKETS_AND_FRAMES"
             THEN w.nb_section_packet_frame ELSE w.nb_item[w.level - 1]
        buf1 == IF b.priv.hierarchical \/ ~is_wrapper_or_array(section)
                THEN buf \o <<Str(sections[section].name), Chars(<<b.priv.sep>>)>>
                     \o (IF "IS_ARRAY" \in sections[parent_section].flags
                         THEN <<Num(n), Chars(<<b.priv.sep>>)>> ELSE << >>)
                ELSE buf
    IN  [w |-> w, b |-> [b EXCEPT !.section_pbuf[w.level] = buf1, !.out = << >>]]

flat_print_int(w, b, key, value) ==
    [b EXCEPT !.out = b.section_pbuf[w.level]
                      \o <<Chars(key), Str("="), Num(value), Str("\n")>>]

flat_print_str(w, b, key, value) ==
    [b EXCEPT !.out = b.section_pbuf[w.level]
                      \o <<Chars(flat_escape_key_str(key)), Str("=")>>
                      \o <<Str("\""), Chars(flat_escape_value_str(value)),
                           Str("\"\n")>>]

(* ------------------------------ ini ------------------------------ *)

INIContext(hierarchical) == [ hierarchical |-> hierarchical ]

\* one digit of %02x
hex_digit(d) == IF d < 10 THEN 48 + d ELSE 87 + d

ini_escape_str(src) ==
    LET esc(c) ==
            IF c = 8 THEN <<92, 98>>
            ELSE IF c = 12 THEN <<92, 102>>
            ELSE IF c = 10 THEN <<92, 110>>
            ELSE IF c = 13 THEN <<92, 114>>
            ELSE IF c = 9 THEN <<92, 116>>
            ELSE IF c \in {92, 35, 61, 58} THEN <<92, c>>
            ELSE IF c < 32
            THEN <<92, 120, 48, 48, hex_digit(c \div 16), hex_digit(c % 16)>>
            ELSE <<c>>
        dst[i \in 0 .. Len(src)] ==
            IF i = 0 THEN << >> ELSE dst[i - 1] \o esc(src[i])
    IN  dst[Len(src)]

ini_print_section_header(w, b) ==
    IF parent_of(w) = SECTION_ID_NONE
    THEN [w |-> w, b |-> [b EXCEPT !.section_pbuf[w.level] = << >>,
                                   !.out = <<Str("# ffprobe output\n\n")>>]]
    ELSE
    LET section == w.section[w.level]
        parent_section == parent_of(w)
        out0 == IF w.nb_item[w.level - 1] # 0 THEN <<Str("\n")>> ELSE << >>
        buf == b.section_pbuf[w.level - 1]
        n == IF parent_section = "PACKETS_AND_FRAMES"
             THEN w.nb_section_packet_frame ELSE w.nb_item[w.level - 1]
        buf1 == IF b.priv.hierarchical \/ ~is_wrapper_or_array(section)
                THEN buf \o (IF buf # << >> THEN <<Str(".")>> ELSE << >>)
                     \o <<Str(sections[section].name)>>
                     \o (IF "IS_ARRAY" \in sections[parent_section].flags
                         THEN <<Str("."), Num(n)>> ELSE << >>)
                ELSE buf
        out1 == IF ~is_wrapper_or_array(section)
                THEN out0 \o <<Str("[")>> \o buf1 \o <<Str("]\n")>>
                ELSE out0
    IN  [w |-> w, b |-> [b EXCEPT !.section_pbuf[w.level] = buf1, !.out = out1]]

ini_print_str(w, b, key, value) ==
    [b EXCEPT !.out = <<Chars(ini_escape_str(key)), Str("="),
                        Chars(ini_escape_str(value)), Str("\n")>>]

ini_print_int(w, b, key, value) ==
    [b EXCEPT !.out = <<Chars(key), Str("="), Num(value), Str("\n")>>]

(* ----------------------------- default -------------------------- *)

\* the private context after av_mallocz and the option defaults / arguments
DefaultContext(nokey, noprint_wrappers) ==
    [ nokey |-> nokey, noprint_wrappers |-> noprint_wrappers,
      nested_section |-> [l \in Levels |-> 0] ]

default_print_section_header(w, b) ==
    LET level == w.level
        section == w.section[level]
        parent_section == parent_of(w)
        nested == parent_section # SECTION_ID_NONE
                  /\ ~is_wrapper_or_array(parent_section)
        priv1 == IF nested THEN [b.priv EXCEPT !.nested_section[level] = 1]
                 ELSE b.priv
        buf1 == IF nested
                THEN b.section_pbuf[level - 1]
                     \o <<Upcase(av_x_if_null(sections[section].element_name,
                                              sections[section].name)),
                          Str(":")>>
                ELSE << >>
        out1 == IF b.priv.noprint_wrappers \/ priv1.nested_section[level] # 0
                THEN << >>
                ELSE IF ~is_wrapper_or_array(section)
                THEN <<Str("["), Upcase(sections[section].name), Str("]\n")>>
                ELSE << >>
    IN  [w |-> w, b |-> [b EXCEPT !.priv = priv1,
                                  !.section_pbuf[level] = buf1,
                                  !.out = out1]]

\* a footer that ends the section with an empty line
default_print_section_footer_blank(w, b) ==
    IF b.priv.noprint_wrappers \/ b.priv.nested_section[w.level] # 0
    THEN [b EXCEPT !.out = << >>]
    ELSE IF ~is_wrapper_or_array(w.section[w.level])
    THEN [b EXCEPT !.out = <<Str("[/"), Upcase(sections[w.section[w.level]].name),
                             Str("]\n"), Str("\n")>>]
    ELSE [b EXCEPT !.out = << >>]

default_print_section_footer(w, b) ==
    IF b.priv.noprint_wrappers \/ b.priv.nested_section[w.level] # 0
    THEN [b EXCEPT !.out = << >>]
    ELSE IF ~is_wrapper_or_array(w.section[w.level])
    THEN [b EXCEPT !.out = <<Str("[/"), Upcase(sections[w.section[w.level]].name),
                             Str("]\n")>>]
    ELSE [b EXCEPT !.out = << >>]

default_print_str(w, b, key, value) ==
    [b EXCEPT !.out = (IF ~b.priv.nokey
                       THEN b.section_pbuf[w.level] \o <<Chars(key), Str("=")>>
                       ELSE << >>)
                      \o <<Chars(value), Str("\n")>>]

default_print_int(w, b, key, value) ==
    [b EXCEPT !.out = (IF ~b.priv.nokey
                       THEN b.section_pbuf[w.level] \o <<Chars(key), Str("=")>>
                       ELSE << >>)
                      \o <<Num(value), Str("\n")>>]

(* ------------------------- compact and csv ----------------------- *)

c_escape_str(src, sep) ==
    LET esc(ch) ==
            IF ch = 8 THEN <<92, 98>>
            ELSE IF ch = 12 THEN <<92, 102>>
            ELSE IF ch = 10 THEN <<92, 110>>
            ELSE IF ch = 13 THEN <<92, 114>>
            ELSE IF ch = 92 THEN <<92, 92>>
            ELSE IF ch = sep THEN <<92, ch>>
            ELSE <<ch>>
        dst[i \in 0 .. Len(src)] ==
            IF i = 0 THEN << >> ELSE dst[i - 1] \o esc(src[i])
    IN  dst[Len(src)]

csv_escape_str(src, sep) ==
    LET needs_quoting == \E i \in DOMAIN src : src[i] \in {sep, 34, 10, 13}
        dst[i \in 0 .. Len(src)] ==
            IF i = 0 THEN << >>
            ELSE dst[i - 1] \o (IF src[i] = 34 THEN <<34, 34>> ELSE <<src[i]>>)
    IN  IF needs_quoting THEN <<34>> \o dst[Len(src)] \o <<34>>
        ELSE dst[Len(src)]

\* compact->escape_str, chosen by compact_init from escape_mode_str;
\* none_escape_str returns src
compact_escape_str(mode, src, sep) ==
    IF mode = "none" THEN src
    ELSE IF mode = "c" THEN c_escape_str(src, sep)
    ELSE csv_escape_str(src, sep)

\* the private context after av_mallocz, the options and compact_init
CompactContext(item_sep, nokey, print_section, escape_mode_str) ==
    [ item_sep |-> item_sep, nokey |-> nokey, print_section |-> print_section,
      escape_mode_str |-> escape_mode_str,
      nested_section |-> [l \in Levels |-> 0],
      has_nested_elems |-> [l \in Levels |-> 0],
      terminate_line |-> [l \in Levels |-> 0] ]

\* the section type made part of a prefix: lower case, specials replaced
compact_normalize_type(type) ==
    [ i \in DOMAIN type |->
        IF is_alnum(type[i])
        THEN (IF type[i] >= 65 /\ type[i] <= 90 THEN type[i] + 32 ELSE type[i])
        ELSE 95 ]

\* data stands for what section->get_type(data) returns
compact_print_section_header(w, b, data) ==
    LET level == w.level
        section == w.section[level]
        parent_section == parent_of(w)
        priv1 == [b.priv EXCEPT !.terminate_line[level] = 1,
                                !.has_nested_elems[level] = 0]
    IN  IF /\ parent_section # SECTION_ID_NONE
           /\ \/ "HAS_TYPE" \in sections[section].flags
              \/ /\ "IS_ARRAY" \notin sections[section].flags
                 /\ ~is_wrapper_or_array(parent_section)
        THEN [w |-> [w EXCEPT !.nb_item[level] = w.nb_item[level - 1]],
              b |-> [b EXCEPT
                  !.priv = [priv1 EXCEPT !.nested_section[level] = 1,
                                         !.has_nested_elems[level - 1] = 1],
                  !.section_pbuf[level] =
                      b.section_pbuf[level - 1]
                      \o <<Str(av_x_if_null(sections[section].element_name,
                                            sections[section].name))>>
                      \o (IF "HAS_TYPE" \in sections[section].flags
                          THEN <<Str("/"), Chars(compact_normalize_type(data))>>
                          ELSE << >>)
                      \o <<Str(":")>>,
                  !.out = << >>]]
        ELSE [w |-> w,
              b |-> [b EXCEPT
                  !.priv = priv1,
                  !.section_pbuf[level] = << >>,
                  !.out =
                      (IF /\ parent_section # SECTION_ID_NONE
                          /\ ~is_wrapper_or_array(parent_section)
                          /\ level # 0 /\ w.nb_item[level - 1] # 0
                       THEN <<Chars(<<b.priv.item_sep>>)>> ELSE << >>)
                      \o (IF b.priv.print_section /\ ~is_wrapper_or_array(section)
                          THEN <<Str(sections[section].name),
                                 Chars(<<b.priv.item_sep>>)>>
                          ELSE << >>)]]

compact_print_section_footer(w, b) ==
    IF /\ b.priv.nested_section[w.level] = 0
       /\ b.priv.terminate_line[w.level] # 0
       /\ ~is_wrapper_or_array(w.section[w.level])
    THEN [b EXCEPT !.out = <<Str("\n")>>]
    ELSE [b EXCEPT !.out = << >>]

compact_print_str(w, b, key, value) ==
    [b EXCEPT !.out =
        (IF w.nb_item[w.level] # 0 THEN <<Chars(<<b.priv.item_sep>>)>> ELSE << >>)
        \o (IF ~b.priv.nokey
            THEN b.section_pbuf[w.level] \o <<Chars(key), Str("=")>> ELSE << >>)
        \o <<Chars(compact_escape_str(b.priv.escape_mode_str, value,
                                      b.priv.item_sep))>>]

compact_print_int(w, b, key, value) ==
    [b EXCEPT !.out =
        (IF w.nb_item[w.level] # 0 THEN <<Chars(<<b.priv.item_sep>>)>> ELSE << >>)
        \o (IF ~b.priv.nokey
            THEN b.section_pbuf[w.level] \o <<Chars(key), Str("=")>> ELSE << >>)
        \o <<Num(value)>>]

(* ------------------------------ json ----------------------------- *)

\* the private context after av_mallocz, the options and json_init
JSONContext(compact) ==
    [ indent_level |-> 0, compact |-> compact,
      item_sep |-> IF compact THEN ", " ELSE ",\n",
      item_start_end |-> IF compact THEN " " ELSE "\n" ]

\* an escape that leaves the backslash as it is
json_escape_str_rawbackslash(src) ==
    LET esc(ch) ==
            IF ch = 34 THEN <<92, 34>>
            ELSE IF ch = 8 THEN <<92, 98>>
            ELSE IF ch = 12 THEN <<92, 102>>
            ELSE IF ch = 10 THEN <<92, 110>>
            ELSE IF ch = 13 THEN <<92, 114>>
            ELSE IF ch = 9 THEN <<92, 116>>
            ELSE IF ch < 32
            THEN <<92, 117, 48, 48, hex_digit(ch \div 16), hex_digit(ch % 16)>>
            ELSE <<ch>>
        dst[i \in 0 .. Len(src)] ==
            IF i = 0 THEN << >> ELSE dst[i - 1] \o esc(src[i])
    IN  dst[Len(src)]

json_escape_str(src) ==
    LET esc(ch) ==
            IF ch = 34 THEN <<92, 34>>
            ELSE IF ch = 92 THEN <<92, 92>>
            ELSE IF ch = 8 THEN <<92, 98>>
            ELSE IF ch = 12 THEN <<92, 102>>
            ELSE IF ch = 10 THEN <<92, 110>>
            ELSE IF ch = 13 THEN <<92, 114>>
            ELSE IF ch = 9 THEN <<92, 116>>
            ELSE IF ch < 32
            THEN <<92, 117, 48, 48, hex_digit(ch \div 16), hex_digit(ch % 16)>>
            ELSE <<ch>>
        dst[i \in 0 .. Len(src)] ==
            IF i = 0 THEN << >> ELSE dst[i - 1] \o esc(src[i])
    IN  dst[Len(src)]

\* JSON_INDENT()
JSON_INDENT(json) == Indent(json.indent_level * 4)

\* a header that opens an element of the combined array like an element of
\* any other array, without a "type" member
json_print_section_header_untyped(w, b) ==
    LET level == w.level
        section == w.section[level]
        parent_section == parent_of(w)
        json == b.priv
        sep == IF level # 0 /\ w.nb_item[level - 1] # 0
               THEN <<Str(",\n")>> ELSE << >>
        json1 == [json EXCEPT !.indent_level = @ + 1]
    IN  IF "IS_WRAPPER" \in sections[section].flags
        THEN [w |-> w, b |-> [b EXCEPT !.priv = json1,
                                       !.out = sep \o <<Str("{\n")>>]]
        ELSE IF "IS_ARRAY" \in sections[section].flags
        THEN [w |-> w,
              b |-> [b EXCEPT !.priv = json1,
                              !.out = sep \o <<JSON_INDENT(json), Str("\""),
                                               Str(sections[section].name),
                                               Str("\": [\n")>>]]
        ELSE IF /\ parent_section # SECTION_ID_NONE
                /\ "IS_ARRAY" \notin sections[parent_section].flags
        THEN [w |-> w,
              b |-> [b EXCEPT !.priv = json1,
                              !.out = sep \o <<JSON_INDENT(json), Str("\""),
                                               Str(sections[section].name),
                                               Str("\": {"),
                                               Str(json.item_start_end)>>]]
        ELSE [w |-> w,
              b |-> [b EXCEPT !.priv = json1,
                              !.out = sep \o <<JSON_INDENT(json), Str("{"),
                                               Str(json.item_start_end)>>]]

\* the section names of sections[] are made of a-z and '_', which
\* json_escape_str copies unchanged
json_print_section_header(w, b) ==
    LET level == w.level
        section == w.section[level]
        parent_section == parent_of(w)
        json == b.priv
        sep == IF level # 0 /\ w.nb_item[level - 1] # 0
               THEN <<Str(",\n")>> ELSE << >>
        json1 == [json EXCEPT !.indent_level = @ + 1]
    IN  IF "IS_WRAPPER" \in sections[section].flags
        THEN [w |-> w, b |-> [b EXCEPT !.priv = json1,
                                       !.out = sep \o <<Str("{\n")>>]]
        ELSE IF "IS_ARRAY" \in sections[section].flags
        THEN [w |-> w,
              b |-> [b EXCEPT !.priv = json1,
                              !.out = sep \o <<JSON_INDENT(json), Str("\""),
                                               Str(sections[section].name),
                                               Str("\": [\n")>>]]
        ELSE IF /\ parent_section # SECTION_ID_NONE
                /\ "IS_ARRAY" \notin sections[parent_section].flags
        THEN [w |-> w,
              b |-> [b EXCEPT !.priv = json1,
                              !.out = sep \o <<JSON_INDENT(json), Str("\""),
                                               Str(sections[section].name),
                                               Str("\": {"),
                                               Str(json.item_start_end)>>]]
        ELSE IF parent_section = "PACKETS_AND_FRAMES"
        THEN [w |-> [w EXCEPT !.nb_item[level] = @ + 1],
              b |-> [b EXCEPT !.priv = json1,
                              !.out = sep \o <<JSON_INDENT(json), Str("{"),
                                               Str(json.item_start_end)>>
                                      \o (IF ~json.compact
                                          THEN <<JSON_INDENT(json1)>> ELSE << >>)
                                      \o <<Str("\"type\": \""),
                                           Str(sections[section].name),
                                           Str("\"")>>]]
        ELSE [w |-> w,
              b |-> [b EXCEPT !.priv = json1,
                              !.out = sep \o <<JSON_INDENT(json), Str("{"),
                                               Str(json.item_start_end)>>]]

json_print_section_footer(w, b) ==
    LET json == b.priv
        json1 == [json EXCEPT !.indent_level = @ - 1]
    IN  IF w.level = 0
        THEN [b EXCEPT !.priv = json1, !.out = <<Str("\n}\n")>>]
        ELSE IF "IS_ARRAY" \in sections[w.section[w.level]].flags
        THEN [b EXCEPT !.priv = json1,
                       !.out = <<Str("\n"), JSON_INDENT(json1), Str("]")>>]
        ELSE [b EXCEPT !.priv = json1,
                       !.out = <<Str(json.item_start_end)>>
                               \o (IF ~json.compact
                                   THEN <<JSON_INDENT(json1)>> ELSE << >>)
                               \o <<Str("}")>>]

json_print_item_str(key, value) ==
    <<Str("\""), Chars(json_escape_str(key)), Str("\":"),
      Str(" \""), Chars(json_escape_str(value)), Str("\"")>>

json_print_str(w, b, key, value) ==
    [b EXCEPT !.out =
        (IF w.nb_item[w.level] # 0 \/ parent_of(w) = "PACKETS_AND_FRAMES"
         THEN <<Str(b.priv.item_sep)>> ELSE << >>)
        \o (IF ~b.priv.compact THEN <<JSON_INDENT(b.priv)>> ELSE << >>)
        \o json_print_item_str(key, value)]

json_print_int(w, b, key, value) ==
    [b EXCEPT !.out =
        (IF w.nb_item[w.level] # 0 \/ parent_of(w) = "PACKETS_AND_FRAMES"
         THEN <<Str(b.priv.item_sep)>> ELSE << >>)
        \o (IF ~b.priv.compact THEN <<JSON_INDENT(b.priv)>> ELSE << >>)
        \o <<Str("\""), Chars(json_escape_str(key)), Str("\": "), Num(value)>>]


(* ------------------------------- xml ----------------------------- *)

\* the private context after av_mallocz, the options and xml_init
XMLContext(fully_qualified) ==
    [ within_tag |-> 0, indent_level |-> 0, fully_qualified |-> fully_qualified ]

\* av_bprint_escape(.., AV_ESCAPE_MODE_XML, AV_ESCAPE_FLAG_XML_DOUBLE_QUOTES)
xml_escape_str(src) ==
    LET esc(ch) ==
            IF ch = 38 THEN <<38, 97, 109, 112, 59>>
            ELSE IF ch = 60 THEN <<38, 108, 116, 59>>
            ELSE IF ch = 62 THEN <<38, 103, 116, 59>>
            ELSE IF ch = 34 THEN <<38, 113, 117, 111, 116, 59>>
            ELSE <<ch>>
        dst[i \in 0 .. Len(src)] ==
            IF i = 0 THEN << >> ELSE dst[i - 1] \o esc(src[i])
    IN  dst[Len(src)]

\* XML_INDENT(): "%*c" pads one blank to the width, and writes that blank
\* also when the width is 0
XML_INDENT(xml) ==
    Indent(IF xml.indent_level * 4 > 1 THEN xml.indent_level * 4 ELSE 1)

\* data stands for what section->get_type(data) returns
xml_print_section_header(w, b, data) ==
    LET level == w.level
        section == w.section[level]
        parent_section == parent_of(w)
        xml == b.priv
        closing == IF xml.within_tag # 0 THEN <<Str(">\n")>> ELSE << >>
        blank == IF /\ parent_section # SECTION_ID_NONE
                    /\ "IS_WRAPPER" \in sections[parent_section].flags
                    /\ level # 0 /\ w.nb_item[level - 1] # 0
                 THEN <<Str("\n")>> ELSE << >>
        xml1 == [xml EXCEPT !.within_tag = 0, !.indent_level = @ + 1]
    IN  IF level = 0
        THEN [w |-> w,
              b |-> [b EXCEPT !.out =
                  <<Str("<?xml version=\"1.0\" encoding=\"UTF-8\"?>\n"),
                    Str("<"),
                    Str(IF xml.fully_qualified THEN "ffprobe:" ELSE ""),
                    Str("ffprobe"),
                    Str(IF xml.fully_qualified
                        THEN " xmlns:xsi=\"http://www.w3.org/2001/XMLSchema-instance\" xmlns:ffprobe=\"http://www.ffmpeg.org/schema/ffprobe\" xsi:schemaLocation=\"http://www.ffmpeg.org/schema/ffprobe ffprobe.xsd\""
                        ELSE ""),
                    Str(">\n")>>]]
        ELSE IF sections[section].flags \cap {"IS_ARRAY", "HAS_VARIABLE_FIELDS"} # {}
        THEN [w |-> w,
              b |-> [b EXCEPT
                  !.priv = xml1,
                  !.out = closing \o blank
                          \o <<XML_INDENT(xml1), Str("<"), Str(sections[section].name)>>
                          \o (IF "HAS_TYPE" \in sections[section].flags
                              THEN <<Str(" type=\""), Chars(xml_escape_str(data)),
                                     Str("\"")>>
                              ELSE << >>)
                          \o <<Str(">\n")>>]]
        ELSE [w |-> w,
              b |-> [b EXCEPT
                  !.priv = [xml1 EXCEPT !.within_tag = 1],
                  !.out = closing \o blank
                          \o <<XML_INDENT(xml1), Str("<"), Str(sections[section].name),
                               Str(" ")>>]]

xml_print_section_footer(w, b) ==
    LET xml == b.priv
        section == w.section[w.level]
    IN  IF w.level = 0
        THEN [b EXCEPT !.out =
                 <<Str("</"), Str(IF xml.fully_qualified THEN "ffprobe:" ELSE ""),
                   Str("ffprobe>\n")>>]
        ELSE IF xml.within_tag # 0
        THEN [b EXCEPT !.priv = [xml EXCEPT !.within_tag = 0, !.indent_level = @ - 1],
                       !.out = <<Str("/>\n")>>]
        ELSE [b EXCEPT !.priv = [xml EXCEPT !.indent_level = @ - 1],
                       !.out = <<XML_INDENT(xml), Str("</"),
                                 Str(sections[section].name), Str(">\n")>>]

\* a value printer that writes every field as an attribute
xml_print_value_attribute(w, b, key, value) ==
    [b EXCEPT !.out =
        (IF w.nb_item[w.level] # 0 THEN <<Str(" ")>> ELSE << >>)
        \o <<Chars(key), Str("=\""), value, Str("\"")>>]

\* value is the text of the value: the escaped string of xml_print_str, the
\* number token of xml_print_int
xml_print_value(w, b, key, value) ==
    LET xml == b.priv
        section == w.section[w.level]
    IN  IF "HAS_VARIABLE_FIELDS" \in sections[section].flags
        THEN [b EXCEPT !.out =
                 <<XML_INDENT([xml EXCEPT !.indent_level = @ + 1]), Str("<"),
                   Str(sections[section].element_name), Str(" key=\""),
                   Chars(xml_escape_str(key)), Str("\""),
                   Str(" value=\""), value, Str("\"/>\n")>>]
        ELSE [b EXCEPT !.out =
                 (IF w.nb_item[w.level] # 0 THEN <<Str(" ")>> ELSE << >>)
                 \o <<Chars(key), Str("=\""), value, Str("\"")>>]

xml_print_str(w, b, key, value) ==
    xml_print_value(w, b, key, Chars(xml_escape_str(value)))

xml_print_int(w, b, key, value) == xml_print_value(w, b, key, Num(value))
(* ---------------------------------------------------------------- *)
(* A caller drives one backend and the text written is observed     *)
(* ---------------------------------------------------------------- *)

\* wctx->writer->print_section_header(wctx, data)
print_section_header(w, b, data) ==
    CASE w.writer = "default" -> default_print_section_header(w, b)
      [] w.writer \in {"compact", "csv"} -> compact_print_section_header(w, b, data)
      [] w.writer = "flat" -> flat_print_section_header(w, b)
      [] w.writer = "ini" -> ini_print_section_header(w, b)
      [] w.writer = "json" -> json_print_section_header(w, b)
      [] w.writer = "xml" -> xml_print_section_header(w, b, data)

\* wctx->writer->print_section_footer(wctx), NULL for flat and ini
print_section_footer(w, b) ==
    CASE w.writer = "default" -> default_print_section_footer(w, b)
      [] w.writer \in {"compact", "csv"} -> compact_print_section_footer(w, b)
      [] w.writer = "json" -> json_print_section_footer(w, b)
      [] w.writer = "xml" -> xml_print_section_footer(w, b)
      [] w.writer \in {"flat", "ini"} -> [b EXCEPT !.out = << >>]

\* wctx->writer->print_integer(wctx, key, val)
print_integer(w, b, key, val) ==
    CASE w.writer = "default" -> default_print_int(w, b, key, val)
      [] w.writer \in {"compact", "csv"} -> compact_print_int(w, b, key, val)
      [] w.writer = "flat" -> flat_print_int(w, b, key, val)
      [] w.writer = "ini" -> ini_print_int(w, b, key, val)
      [] w.writer = "json" -> json_print_int(w, b, key, val)
      [] w.writer = "xml" -> xml_print_int(w, b, key, val)

\* wctx->writer->print_string(wctx, key, val)
print_string(w, b, key, val) ==
    CASE w.writer = "default" -> default_print_str(w, b, key, val)
      [] w.writer \in {"compact", "csv"} -> compact_print_str(w, b, key, val)
      [] w.writer = "flat" -> flat_print_str(w, b, key, val)
      [] w.writer = "ini" -> ini_print_str(w, b, key, val)
      [] w.writer = "json" -> json_print_str(w, b, key, val)
      [] w.writer = "xml" -> xml_print_str(w, b, key, val)

\* a cursor with the WriterContext and backend r of a header hook
AfterHook(c, r) == [c EXCEPT !.w = r.w, !.b = r.b]

\* writer_print_section_header with the hook's text: c is the cursor after
\* the header's own assignments, which precede the hook call
header_with_hook(c, data) ==
    IF c.halt # "no" THEN c
    ELSE AfterHook(c, print_section_header(c.w, c.b, data))

\* writer_print_section_footer with the hook's text: the hook runs before
\* level is decremented, so it sees the level of c0, the cursor before the call
footer_with_hook(c0, c) ==
    IF c.halt # "no" THEN c
    ELSE [c EXCEPT !.b = print_section_footer([c.w EXCEPT !.level = c0.w.level], c.b)]

\* writer_print_integer / writer_print_string with the hook's text: the hook
\* runs before nb_item is incremented, so it sees the WriterContext of c0
print_with_hook(c0, c) ==
    IF c.b.nb_print = c0.b.nb_print THEN [c EXCEPT !.b.out = << >>]
    ELSE IF c.b.last[1] = "int"
    THEN [c EXCEPT !.b = print_integer(c0.w, c.b, c.b.last[2], c.b.last[3])]
    ELSE [c EXCEPT !.b = print_string(c0.w, c.b, c.b.last[2], c.b.last[3])]

\* the key "a.b"
KeyDotted == <<97, 46, 98>>

\* sections opened by the caller, by the section they are opened in: legal
\* children, and the combined array with its packets, frames and subtitles
\* as read_packets and its callees open them
OutChildren ==
    [ id \in SectionID |->
        IF id = "ROOT" THEN {"FORMAT", "STREAMS", "PACKETS_AND_FRAMES"}
        ELSE IF id = "FORMAT" THEN {"FORMAT_TAGS"}
        ELSE IF id = "STREAMS" THEN {"STREAM"}
        ELSE IF id = "PACKETS_AND_FRAMES" THEN {"PACKET", "FRAME", "SUBTITLE"}
        ELSE {} ]

\* open_section calls of one run
MaxOpens == 5

\* emit calls of one run
MaxEmits == 2

\* the private contexts the options can leave behind, per backend
OutPrivs(name) ==
    IF name = "default"
    THEN { DefaultContext(FALSE, nw) : nw \in BOOLEAN }
    ELSE IF name = "compact" THEN { CompactContext(124, FALSE, TRUE, "c") }
    ELSE IF name = "csv" THEN { CompactContext(44, TRUE, TRUE, "csv") }
    ELSE IF name = "flat" THEN { FlatContext(46, h) : h \in BOOLEAN }
    ELSE IF name = "ini" THEN { INIContext(h) : h \in BOOLEAN }
    ELSE IF name = "json" THEN { JSONContext(cpt) : cpt \in BOOLEAN }
    ELSE { XMLContext(q) : q \in BOOLEAN }

\* integer and string emits of the caller
OutIntKeys == { KeyA, KeyDotted }

OutStringInputs ==
    { <<KeyA, ValGood, {}>>, <<KeyDotted, ValGood, {}>>,
      <<KeyA, ValGood, {PRINT_STRING_VALIDATE}>>,
      <<KeyA, ValBad, {PRINT_STRING_VALIDATE}>> }

\* what is remembered of the calls made: how many opens and emits, whether
\* each open so far was of a listed child, the elements opened in the
\* combined array so far, and per level the items (fields, child sections)
\* written; labels holds, for each element of elems, the kind the text
\* written at its opening names it with
NoOutRun ==
    [ pc |-> "out", nopens |-> 0, nemits |-> 0, legal |-> TRUE, elems |-> << >>,
      labels |-> << >>,
      written |-> [l \in Levels |-> 0] ]

NoOutCall ==
    [ op |-> "none", id |-> SECTION_ID_NONE, parent |-> SECTION_ID_NONE,
      level |-> -1, key |-> << >>, val |-> << >>, flags |-> {},
      fwd |-> FALSE, ret |-> 0, written_before |-> 0 ]

\* a run with one of the backends of names
InitOut(names) ==
    /\ \E name \in names :
           /\ wctx = writer_open(name, "FAIL", Replacement)
           /\ \E priv \in OutPrivs(name) : bk = BackendOf(priv)
    /\ log = NoLog
    /\ halt = "no"
    /\ show_optional_fields = SHOW_OPTIONAL_FIELDS_AUTO
    /\ filt = mark_all(NoFilter, <<"ROOT">>, TRUE, {})
    /\ call = NoOutCall
    /\ run = NoOutRun

\* the fields the text of a header holds: the "type" the JSON backend injects
header_fields(out) ==
    IF \E i \in DOMAIN out : out[i] = Str("\"type\": \"") THEN 1 ELSE 0

\* the name token that follows the token mark in text, "" if there is none
NameAfter(text, mark) ==
    IF \E i \in 1 .. (Len(text) - 1) : text[i] = mark /\ text[i + 1].t = "str"
    THEN text[(CHOOSE i \in 1 .. (Len(text) - 1) :
                   text[i] = mark /\ text[i + 1].t = "str") + 1].s
    ELSE ""

\* the last name of a prefix, "" if it has none
LastName(buf) ==
    IF \E i \in DOMAIN buf : buf[i].t = "str" /\ buf[i].s # "."
    THEN buf[CHOOSE i \in DOMAIN buf :
                 /\ buf[i].t = "str" /\ buf[i].s # "."
                 /\ \A j \in DOMAIN buf :
                        j > i => ~(buf[j].t = "str" /\ buf[j].s # ".")].s
    ELSE ""

\* the kind the element opened last is labelled with in what the backend
\* wrote or will write for it: the "type" member of JSON, the tag of XML,
\* the last name of the prefix of Flat and INI
RenderedLabel(r) ==
    CASE r.w.writer = "json" -> NameAfter(r.b.out, Str("\"type\": \""))
      [] r.w.writer = "xml" -> NameAfter(r.b.out, Str("<"))
      [] r.w.writer \in {"flat", "ini"} -> LastName(r.b.section_pbuf[r.w.level])
      [] OTHER -> ""

OutOpened(r, id) ==
    /\ Becomes(r)
    /\ call' = [NoOutCall EXCEPT
                    !.op = "open", !.id = id, !.level = r.w.level,
                    !.parent = IF wctx.level >= 0 THEN wctx.section[wctx.level]
                               ELSE SECTION_ID_NONE,
                    !.written_before =
                        IF wctx.level >= 0 THEN run.written[wctx.level] ELSE 0]
    /\ run' = [run EXCEPT
                   !.nopens = @ + 1,
                   !.legal = @ /\ (wctx.level >= 0 =>
                       \E i \in DOMAIN sections[wctx.section[wctx.level]].children_ids :
                           sections[wctx.section[wctx.level]].children_ids[i] = id),
                   !.elems = IF id = "PACKETS_AND_FRAMES" THEN << >>
                             ELSE IF wctx.level >= 0
                                     /\ wctx.section[wctx.level] = "PACKETS_AND_FRAMES"
                             THEN Append(@, id) ELSE @,
                   !.labels = IF id = "PACKETS_AND_FRAMES" THEN << >>
                              ELSE IF wctx.level >= 0
                                      /\ wctx.section[wctx.level] = "PACKETS_AND_FRAMES"
                              THEN Append(@, RenderedLabel(r)) ELSE @,
                   !.written = [l \in Levels |->
                       IF l = r.w.level THEN header_fields(r.b.out)
                       ELSE IF l = wctx.level THEN run.written[l] + 1
                       ELSE run.written[l]]]
    /\ UNCHANGED <<show_optional_fields, filt>>

\* open_section(id)
OutOpen(id) ==
    /\ halt = "no"
    /\ run.nopens < MaxOpens
    /\ IF wctx.level = -1 THEN id = "ROOT" /\ run.nopens = 0
       ELSE id \in OutChildren[wctx.section[wctx.level]]
    /\ OutOpened(header_with_hook(
                     writer_print_section_header(Cursor(wctx, bk, NoLog, halt), id),
                     << >>), id)

\* close_section()
OutClose ==
    /\ halt = "no"
    /\ wctx.level >= 0
    /\ Becomes(footer_with_hook(
                   Cursor(wctx, bk, NoLog, halt),
                   writer_print_section_footer(Cursor(wctx, bk, NoLog, halt),
                                               "continue")))
    /\ call' = [NoOutCall EXCEPT
                    !.op = "close", !.id = wctx.section[wctx.level],
                    !.level = wctx.level,
                    !.parent = IF wctx.level > 0 THEN wctx.section[wctx.level - 1]
                               ELSE SECTION_ID_NONE]
    /\ UNCHANGED <<show_optional_fields, filt, run>>

OutPrinted(r, op, key, val, flags, ret) ==
    /\ Becomes(r)
    /\ call' = [NoOutCall EXCEPT
                    !.op = op, !.id = wctx.section[wctx.level],
                    !.level = wctx.level,
                    !.parent = IF wctx.level > 0 THEN wctx.section[wctx.level - 1]
                               ELSE SECTION_ID_NONE,
                    !.key = key, !.val = val, !.flags = flags,
                    !.fwd = r.b.nb_print # bk.nb_print, !.ret = ret,
                    !.written_before = run.written[wctx.level]]
    /\ run' = [run EXCEPT !.nemits = @ + 1,
                           !.written[wctx.level] =
                               IF r.b.nb_print # bk.nb_print THEN @ + 1 ELSE @]
    /\ UNCHANGED <<show_optional_fields, filt>>

\* fields go into sections that are neither wrappers nor arrays
OutEmitEnabled ==
    /\ halt = "no"
    /\ wctx.level >= 1
    /\ ~is_wrapper_or_array(wctx.section[wctx.level])
    /\ run.nemits < MaxEmits

\* emit_integer(key, 7)
OutPrintInteger(key) ==
    /\ OutEmitEnabled
    /\ OutPrinted(print_with_hook(
                      Cursor(wctx, bk, NoLog, halt),
                      writer_print_integer(Cursor(wctx, bk, NoLog, halt),
                                           filt, key, 7)),
                  "int", key, << >>, {}, 0)

OutStringDone(r, key, val, flags) ==
    OutPrinted(print_with_hook(Cursor(wctx, bk, NoLog, halt), r.c),
               "str", key, val, flags, r.ret)

\* emit_string(key, value, flags)
OutPrintString(key, val, flags) ==
    /\ OutEmitEnabled
    /\ OutStringDone(writer_print_string(Cursor(wctx, bk, NoLog, halt), filt,
                                         show_optional_fields, key, val, flags),
                     key, val, flags)

NextOut ==
    \/ \E id \in SectionID : OutOpen(id)
    \/ OutClose
    \/ \E key \in OutIntKeys : OutPrintInteger(key)
    \/ \E s \in OutStringInputs : OutPrintString(s[1], s[2], s[3])

SpecFlat == InitOut({"flat", "ini"}) /\ [][NextOut]_vars

SpecCompact == InitOut({"compact", "csv"}) /\ [][NextOut]_vars

SpecDefault == InitOut({"default"}) /\ [][NextOut]_vars

SpecJson == InitOut({"json"}) /\ [][NextOut]_vars

(* ---------------------------------------------------------------- *)
(* C12: numbering inside the combined packets-and-frames array      *)
(* ---------------------------------------------------------------- *)

\* the last number of a prefix: the index segment of an array element
IndexSegment(buf) ==
    buf[CHOOSE i \in DOMAIN buf :
            /\ buf[i].t = "num"
            /\ \A j \in DOMAIN buf : j > i => buf[j].t # "num"].n

\* an element of the combined array has just been opened
ElementOpened ==
    /\ call.op = "open"
    /\ call.parent = "PACKETS_AND_FRAMES"
    /\ halt = "no"

\* elements of run.elems before the last one that are packets (if the last
\* one is a packet) or are not packets (if it is not)
EarlierOfKind ==
    Cardinality({ i \in 1 .. (Len(run.elems) - 1) :
                    (run.elems[i] = "PACKET") = (call.id = "PACKET") })

\* C12 as stated: in Flat and INI the n-th element opened in the combined
\* array, counting elements of all kinds together from 0, has index segment n
C12_SharedCounter ==
    ElementOpened =>
        IndexSegment(bk.section_pbuf[wctx.level]) = Len(run.elems) - 1

\* C12 amended: in Flat and INI the elements of the combined array are
\* numbered per kind; the index segment of an element is the number of
\* elements of its own kind (packets, or frames and subtitles together)
\* opened in the array before it
C12_PerKindCounter ==
    ElementOpened =>
        IndexSegment(bk.section_pbuf[wctx.level]) = EarlierOfKind

\* a frame opened after a packet starts its own count at 0
C12_Witness ==
    /\ ElementOpened
    /\ call.id = "FRAME"
    /\ run.elems = <<"PACKET", "FRAME">>
    /\ IndexSegment(bk.section_pbuf[wctx.level]) = 0

(* ---------------------------------------------------------------- *)
(* C13, C14: lines and brackets of the Compact and Default backends *)
(* ---------------------------------------------------------------- *)

\* the last call was made on a section that is neither wrapper nor array,
\* after opens of listed children only
PlainSectionCall(op) ==
    /\ call.op = op
    /\ halt = "no"
    /\ run.legal
    /\ ~is_wrapper_or_array(call.id)

\* C13: in the Compact/CSV backend the close of a leaf section (not a
\* wrapper, not an array, not a prefixed nested element of its parent: its
\* parent is a wrapper or an array and it has no type) writes exactly one
\* newline, after any legal sequence of opens and closes
C13_LeafCloseNewline ==
    ( /\ PlainSectionCall("close")
      /\ "HAS_TYPE" \notin sections[call.id].flags
      /\ call.parent # SECTION_ID_NONE
      /\ is_wrapper_or_array(call.parent) )
    => bk.out = <<Str("\n")>>

\* the bracket line of the section of the last call
BracketLine ==
    IF call.op = "open"
    THEN <<Str("["), Upcase(sections[call.id].name), Str("]\n")>>
    ELSE <<Str("[/"), Upcase(sections[call.id].name), Str("]\n")>>

\* C14: in the Default backend with wrappers printed, after any legal
\* sequence of opens and closes, a non-wrapper non-array section gets its
\* [NAME] line at its open and its [/NAME] line at its close exactly when its
\* parent is a wrapper or an array, and otherwise gets no bracket lines and the
\* prefix of its parent followed by ELEMENTNAME:
C14_BracketsByParent ==
    ( /\ (PlainSectionCall("open") \/ PlainSectionCall("close"))
      /\ ~bk.priv.noprint_wrappers
      /\ call.parent # SECTION_ID_NONE )
    => IF is_wrapper_or_array(call.parent)
       THEN bk.out = BracketLine
       ELSE /\ bk.out = << >>
            /\ bk.section_pbuf[call.level] =
                   bk.section_pbuf[call.level - 1]
                   \o <<Upcase(IF sections[call.id].element_name = "NULL"
                               THEN sections[call.id].name
                               ELSE sections[call.id].element_name),
                        Str(":")>>

(* ---------------------------------------------------------------- *)
(* C15: keys of the Flat backend                                    *)
(* ---------------------------------------------------------------- *)

\* the key of the last emit call with every byte outside 0-9, A-Z, a-z
\* replaced by '_'
EscapedKey ==
    [ i \in DOMAIN call.key |->
        IF call.key[i] \in (48 .. 57) \cup (65 .. 90) \cup (97 .. 122)
        THEN call.key[i] ELSE 95 ]

\* C15: in the Flat backend the key written for a field, integer or string,
\* is the field's key with each non-alphanumeric byte replaced by '_'
C15_FlatKeyEscaped ==
    ( /\ call.op \in {"int", "str"}
      /\ call.fwd
      /\ wctx.writer = "flat" )
    => bk.out[Len(bk.section_pbuf[wctx.level]) + 1] = Chars(EscapedKey)

(* ---------------------------------------------------------------- *)
(* SpecLog: the log buffer, decoder threads and the main thread     *)
(* ---------------------------------------------------------------- *)

\* the main thread and the threads of the decoder
LogThreads == { "main", "w1", "w2" }

\* av_log levels of the lines logged (AV_LOG_ERROR, AV_LOG_INFO)
LogLevels == { 16, 32 }

\* lines logged: "A" and "A\n"
LogLines == { <<65>>, <<65, 10>> }

\* log_callback calls of one run
MaxLogs == 2

\* frames decoded in one run
MaxFrames == 2

\* the keys "context", "level", "category", "parent_context",
\* "parent_category" and "message", and the value "N/A"
LogKeys ==
    [ context |-> <<99, 111, 110, 116, 101, 120, 116>>,
      level |-> <<108, 101, 118, 101, 108>>,
      category |-> <<99, 97, 116, 101, 103, 111, 114, 121>>,
      parent_context |-> <<112, 97, 114, 101, 110, 116, 95, 99, 111, 110, 116,
                           101, 120, 116>>,
      parent_category |-> <<112, 97, 114, 101, 110, 116, 95, 99, 97, 116, 101,
                            103, 111, 114, 121>>,
      message |-> <<109, 101, 115, 115, 97, 103, 101>>,
      na |-> <<78, 47, 65>> ]

\* for (i = strlen(msg) - 1; i >= 0 && msg[i] == '\n'; i--) msg[i] = 0;
RECURSIVE strip_newlines(_)
strip_newlines(msg) ==
    IF msg # << >> /\ msg[Len(msg)] = 10
    THEN strip_newlines(SubSeq(msg, 1, Len(msg) - 1))
    ELSE msg

\* the state of the threads: where each one stands, who holds log_mutex,
\* log_buffer[0 .. log_buffer_size-1], the static print_prefix of
\* log_callback, the arguments of the log_callback call of each thread, the
\* loop index of show_log, the need_lock argument of the clear_log call and
\* where it returns to, and what happened so far (calls, frames, whether two
\* calls ran av_log_format_line on print_prefix at once, and the lines
\* show_log has rendered; a line is known by the number id of the
\* log_callback call that brought it)
InitLogRun(do_show_log) ==
    [ pc |-> [t \in LogThreads |-> IF t = "main" THEN "process_frame" ELSE "idle"],
      log_mutex |-> "none",
      log_buffer |-> << >>,
      print_prefix |-> 1,
      line |-> [t \in LogThreads |-> [level |-> 0, msg |-> << >>, id |-> 0]],
      i |-> 0,
      need_lock |-> FALSE,
      ret_pc |-> "none",
      do_show_log |-> do_show_log,
      nb_logs |-> 0,
      nb_frames |-> 0,
      raced |-> FALSE,
      rendered |-> << >> ]

\* main after pthread_mutex_init, av_log_set_callback(log_callback) and the
\* opens of Root and the frames array; -show_log gave the level
InitLog ==
    /\ \E name \in {"default", "json"} :
        LET c == writer_print_section_header(
                     writer_print_section_header(
                         Cursor(writer_open(name, "REPLACE", Replacement),
                                NoBackend, NoLog, "no"),
                         "ROOT"),
                     "FRAMES")
        IN  wctx = c.w /\ bk = c.b
    /\ log = NoLog
    /\ halt = "no"
    /\ show_optional_fields = SHOW_OPTIONAL_FIELDS_AUTO
    /\ filt = mark_all(NoFilter, <<"ROOT">>, TRUE, {})
    /\ call = NoCall
    /\ \E lvl \in LogLevels : run = InitLogRun(lvl)

\* the variables of the writer stay as they are
LogOnly == UNCHANGED <<wctx, bk, log, halt, show_optional_fields, filt, call>>

\* log_callback in thread t: av_log_format_line, which reads and writes the
\* static print_prefix, runs before the lock is taken; with two calls in it
\* at once the value left behind is either one's
log_callback(t) ==
    \/ /\ run.pc[t] = "idle"
       /\ run.nb_logs < MaxLogs
       /\ \E level \in LogLevels, msg \in LogLines :
              run' = [run EXCEPT !.pc[t] = "av_log_format_line",
                                 !.line[t] = [level |-> level, msg |-> msg,
                                              id |-> run.nb_logs + 1],
                                 !.nb_logs = @ + 1,
                                 !.raced = @ \/ \E u \in LogThreads \ {t} :
                                     run.pc[u] = "av_log_format_line"]
       /\ LogOnly
    \/ /\ run.pc[t] = "av_log_format_line"
       /\ \E pp \in {0, 1} :
              /\ (\A u \in LogThreads \ {t} : run.pc[u] # "av_log_format_line")
                     => pp = (IF run.line[t].msg[Len(run.line[t].msg)] = 10
                              THEN 1 ELSE 0)
              /\ run' = [run EXCEPT !.pc[t] = "lock", !.print_prefix = pp]
       /\ LogOnly
    \/ /\ run.pc[t] = "lock"
       /\ run.log_mutex = "none"
       /\ run' = [run EXCEPT !.pc[t] = "append", !.log_mutex = t]
       /\ LogOnly
    \/ /\ run.pc[t] = "append"
       /\ \E new_log_buffer \in BOOLEAN :
              run' = [run EXCEPT
                  !.pc[t] = "unlock",
                  !.log_buffer =
                      IF new_log_buffer
                      THEN Append(@, [log_level |-> run.line[t].level,
                                      log_message |->
                                          strip_newlines(run.line[t].msg),
                                      id |-> run.line[t].id])
                      ELSE @]
       /\ LogOnly
    \/ /\ run.pc[t] = "unlock"
       /\ run' = [run EXCEPT !.pc[t] = "idle", !.log_mutex = "none"]
       /\ LogOnly

\* a clear_log that takes need_lock for 0 whatever it is
clear_log_unlocked ==
    \/ /\ run.pc["main"] = "clear_log"
       /\ run' = [run EXCEPT !.pc["main"] = "clear_log_loop"]
       /\ LogOnly
    \/ /\ run.pc["main"] = "clear_log_loop"
       /\ run' = [run EXCEPT !.pc["main"] = "clear_log_unlock",
                             !.log_buffer = << >>]
       /\ LogOnly
    \/ /\ run.pc["main"] = "clear_log_unlock"
       /\ run' = [run EXCEPT !.pc["main"] = run.ret_pc]
       /\ LogOnly

\* clear_log(need_lock) in the main thread
clear_log ==
    \/ /\ run.pc["main"] = "clear_log"
       /\ run.need_lock => run.log_mutex = "none"
       /\ run' = [run EXCEPT !.pc["main"] = "clear_log_loop",
                             !.log_mutex = IF run.need_lock THEN "main" ELSE @]
       /\ LogOnly
    \/ /\ run.pc["main"] = "clear_log_loop"
       /\ run' = [run EXCEPT !.pc["main"] = "clear_log_unlock",
                             !.log_buffer = << >>]
       /\ LogOnly
    \/ /\ run.pc["main"] = "clear_log_unlock"
       /\ run' = [run EXCEPT !.pc["main"] = run.ret_pc,
                             !.log_mutex = IF run.need_lock THEN "none" ELSE @]
       /\ LogOnly

\* the body of the loop of show_log for the entry e of an object that has no
\* parent log context: the section of the entry with its fields
show_log_entry(c, f, sof, e) ==
    writer_print_section_footer(
        writer_print_string(
            writer_print_string(
                writer_print_string(
                    writer_print_integer(
                        writer_print_integer(
                            writer_print_string(
                                writer_print_section_header(c, "FRAME_LOG"),
                                f, sof, LogKeys.context, <<65>>, {}).c,
                            f, LogKeys.level, e.log_level),
                        f, LogKeys.category, 0),
                    f, sof, LogKeys.parent_context, LogKeys.na,
                    {PRINT_STRING_OPT}).c,
                f, sof, LogKeys.parent_category, LogKeys.na,
                {PRINT_STRING_OPT}).c,
            f, sof, LogKeys.message, e.log_message, {}).c,
        "continue")

\* a show_log that leaves the buffer as it is: no clear_log(0) after the loop
show_log_no_clear ==
    \/ /\ run.pc["main"] = "show_log"
       /\ run.log_mutex = "none"
       /\ run' = [run EXCEPT !.pc["main"] = "show_log_size", !.log_mutex = "main"]
       /\ LogOnly
    \/ /\ run.pc["main"] = "show_log_size"
       /\ IF run.log_buffer = << >>
          THEN /\ run' = [run EXCEPT !.pc["main"] = "show_frame_end",
                                     !.log_mutex = "none"]
               /\ LogOnly
          ELSE /\ Becomes(writer_print_section_header(
                              Cursor(wctx, bk, NoLog, halt), "FRAME_LOGS"))
               /\ run' = [run EXCEPT !.pc["main"] = "show_log_loop", !.i = 0]
               /\ UNCHANGED <<show_optional_fields, filt, call>>
    \/ /\ run.pc["main"] = "show_log_loop"
       /\ run.i < Len(run.log_buffer)
       /\ IF run.log_buffer[run.i + 1].log_level <= run.do_show_log
          THEN Becomes(show_log_entry(Cursor(wctx, bk, NoLog, halt), filt,
                                      show_optional_fields,
                                      run.log_buffer[run.i + 1]))
          ELSE UNCHANGED <<wctx, bk, log, halt>>
       /\ run' = [run EXCEPT
                      !.i = @ + 1,
                      !.rendered =
                          IF run.log_buffer[run.i + 1].log_level <= run.do_show_log
                          THEN Append(@, run.log_buffer[run.i + 1].id) ELSE @]
       /\ UNCHANGED <<show_optional_fields, filt, call>>
    \/ /\ run.pc["main"] = "show_log_loop"
       /\ ~(run.i < Len(run.log_buffer))
       /\ run' = [run EXCEPT !.pc["main"] = "show_log_unlock"]
       /\ LogOnly
    \/ /\ run.pc["main"] = "show_log_unlock"
       /\ Becomes(writer_print_section_footer(
                      Cursor(wctx, bk, NoLog, halt), "continue"))
       /\ run' = [run EXCEPT !.pc["main"] = "show_frame_end",
                             !.log_mutex = "none"]
       /\ UNCHANGED <<show_optional_fields, filt, call>>

\* a show_log that returns at once from an empty buffer, the mutex still
\* locked
show_log_keeps_lock ==
    \/ /\ run.pc["main"] = "show_log"
       /\ run.log_mutex = "none"
       /\ run' = [run EXCEPT !.pc["main"] = "show_log_size", !.log_mutex = "main"]
       /\ LogOnly
    \/ /\ run.pc["main"] = "show_log_size"
       /\ IF run.log_buffer = << >>
          THEN /\ run' = [run EXCEPT !.pc["main"] = "show_frame_end"]
               /\ LogOnly
          ELSE /\ Becomes(writer_print_section_header(
                              Cursor(wctx, bk, NoLog, halt), "FRAME_LOGS"))
               /\ run' = [run EXCEPT !.pc["main"] = "show_log_loop", !.i = 0]
               /\ UNCHANGED <<show_optional_fields, filt, call>>
    \/ /\ run.pc["main"] = "show_log_loop"
       /\ run.i < Len(run.log_buffer)
       /\ IF run.log_buffer[run.i + 1].log_level <= run.do_show_log
          THEN Becomes(show_log_entry(Cursor(wctx, bk, NoLog, halt), filt,
                                      show_optional_fields,
                                      run.log_buffer[run.i + 1]))
          ELSE UNCHANGED <<wctx, bk, log, halt>>
       /\ run' = [run EXCEPT
                      !.i = @ + 1,
                      !.rendered =
                          IF run.log_buffer[run.i + 1].log_level <= run.do_show_log
                          THEN Append(@, run.log_buffer[run.i + 1].id) ELSE @]
       /\ UNCHANGED <<show_optional_fields, filt, call>>
    \/ /\ run.pc["main"] = "show_log_loop"
       /\ ~(run.i < Len(run.log_buffer))
       /\ run' = [run EXCEPT !.pc["main"] = "clear_log", !.need_lock = FALSE,
                             !.ret_pc = "show_log_unlock"]
       /\ LogOnly
    \/ /\ run.pc["main"] = "show_log_unlock"
       /\ Becomes(writer_print_section_footer(
                      Cursor(wctx, bk, NoLog, halt), "continue"))
       /\ run' = [run EXCEPT !.pc["main"] = "show_frame_end",
                             !.log_mutex = "none"]
       /\ UNCHANGED <<show_optional_fields, filt, call>>

\* show_log(w, SECTION_ID_FRAME_LOGS, SECTION_ID_FRAME_LOG, do_show_log) in
\* the main thread
show_log ==
    \/ /\ run.pc["main"] = "show_log"
       /\ run.log_mutex = "none"
       /\ run' = [run EXCEPT !.pc["main"] = "show_log_size", !.log_mutex = "main"]
       /\ LogOnly
    \/ /\ run.pc["main"] = "show_log_size"
       /\ IF run.log_buffer = << >>
          THEN /\ run' = [run EXCEPT !.pc["main"] = "show_frame_end",
                                     !.log_mutex = "none"]
               /\ LogOnly
          ELSE /\ Becomes(writer_print_section_header(
                              Cursor(wctx, bk, NoLog, halt), "FRAME_LOGS"))
               /\ run' = [run EXCEPT !.pc["main"] = "show_log_loop", !.i = 0]
               /\ UNCHANGED <<show_optional_fields, filt, call>>
    \/ /\ run.pc["main"] = "show_log_loop"
       /\ run.i < Len(run.log_buffer)
       /\ IF run.log_buffer[run.i + 1].log_level <= run.do_show_log
          THEN Becomes(show_log_entry(Cursor(wctx, bk, NoLog, halt), filt,
                                      show_optional_fields,
                                      run.log_buffer[run.i + 1]))
          ELSE UNCHANGED <<wctx, bk, log, halt>>
       /\ run' = [run EXCEPT
                      !.i = @ + 1,
                      !.rendered =
                          IF run.log_buffer[run.i + 1].log_level <= run.do_show_log
                          THEN Append(@, run.log_buffer[run.i + 1].id) ELSE @]
       /\ UNCHANGED <<show_optional_fields, filt, call>>
    \/ /\ run.pc["main"] = "show_log_loop"
       /\ ~(run.i < Len(run.log_buffer))
       /\ run' = [run EXCEPT !.pc["main"] = "clear_log", !.need_lock = FALSE,
                             !.ret_pc = "show_log_unlock"]
       /\ LogOnly
    \/ /\ run.pc["main"] = "show_log_unlock"
       /\ Becomes(writer_print_section_footer(
                      Cursor(wctx, bk, NoLog, halt), "continue"))
       /\ run' = [run EXCEPT !.pc["main"] = "show_frame_end",
                             !.log_mutex = "none"]
       /\ UNCHANGED <<show_optional_fields, filt, call>>

\* process_frame in the main thread: clear_log(1), the decoder at work, then
\* show_frame with the section of the frame and show_log inside it
process_frame ==
    \/ /\ run.pc["main"] = "process_frame"
       /\ run.nb_frames < MaxFrames
       /\ run' = [run EXCEPT !.pc["main"] = "clear_log", !.need_lock = TRUE,
                             !.ret_pc = "decode"]
       /\ LogOnly
    \/ /\ run.pc["main"] = "decode"
       /\ Becomes(writer_print_section_header(
                      Cursor(wctx, bk, NoLog, halt), "FRAME"))
       /\ run' = [run EXCEPT !.pc["main"] = "show_log"]
       /\ UNCHANGED <<show_optional_fields, filt, call>>
    \/ /\ run.pc["main"] = "show_frame_end"
       /\ Becomes(writer_print_section_footer(
                      Cursor(wctx, bk, NoLog, halt), "continue"))
       /\ run' = [run EXCEPT !.pc["main"] = "process_frame", !.nb_frames = @ + 1]
       /\ UNCHANGED <<show_optional_fields, filt, call>>

NextLog ==
    \/ \E t \in LogThreads \ {"main"} : log_callback(t)
    \/ clear_log
    \/ show_log
    \/ process_frame

SpecLog == InitLog /\ [][NextLog]_vars

(* ---------------------------------------------------------------- *)
(* C16, C17: the log mutex                                          *)
(* ---------------------------------------------------------------- *)

\* thread t is in the middle of an append to, a read of or a clear of the
\* log buffer
InBufferOp(t) ==
    run.pc[t] \in { "append", "show_log_size", "show_log_loop", "clear_log_loop" }

\* C16: every append to the log buffer by log_callback and every read, drain
\* or clear of it by show_log and clear_log happens with the log mutex held
\* by the thread doing it, so no two of these operations overlap
C16_BufferOpsLocked ==
    /\ \A t \in LogThreads : InBufferOp(t) => run.log_mutex = t
    /\ \A t, u \in LogThreads : (InBufferOp(t) /\ InBufferOp(u)) => t = u

\* a decoder thread is appending while the main thread waits for the mutex
\* to drain the buffer, which already holds an entry
C16_Witness ==
    /\ \E t \in LogThreads \ {"main"} : run.pc[t] = "append"
    /\ run.pc["main"] = "show_log"
    /\ run.log_buffer # << >>

\* C17: two log_callback calls never access the same mutable variable at
\* once without the lock: no two threads are in av_log_format_line on the
\* static print_prefix together
C17_NoUnlockedSharing ==
    \A t, u \in LogThreads :
        (run.pc[t] = "av_log_format_line" /\ run.pc[u] = "av_log_format_line")
            => t = u

(* ---------------------------------------------------------------- *)
(* SpecProbe: main and probe_file open and close the sections       *)
(* ---------------------------------------------------------------- *)

\* the writer calls a function makes, in order: section headers and footers
Open(id) == <<"open", id>>

Close == <<"close", SECTION_ID_NONE>>

\* show_packet, show_subtitle and show_frame of a packet or frame without
\* side data, tags or logs
show_packet_calls == <<Open("PACKET"), Close>>

show_subtitle_calls == <<Open("SUBTITLE"), Close>>

show_frame_calls == <<Open("FRAME"), Close>>

\* process_frame: decoded is what the decoder gave for the packet
process_frame_calls(o, decoded) ==
    IF decoded # "none" /\ o.do_show_frames
    THEN IF decoded = "subtitle" THEN show_subtitle_calls ELSE show_frame_calls
    ELSE << >>

\* read_packets with no read interval: read_interval_packets over the
\* packets av_read_frame returns, every one of a selected stream
read_packets_calls(o, pkts) ==
    LET one(decoded) ==
            (IF o.do_read_packets /\ o.do_show_packets
             THEN show_packet_calls ELSE << >>)
            \o (IF o.do_read_frames THEN process_frame_calls(o, decoded)
                ELSE << >>)
        all[i \in 0 .. Len(pkts)] ==
            IF i = 0 THEN << >> ELSE all[i - 1] \o one(pkts[i])
    IN  all[Len(pkts)]

\* section_header[container] of show_stream
stream_section_header ==
    <<"STREAM", "PROGRAM_STREAM", "STREAM_GROUP_STREAM">>

\* show_stream of a stream with nb_coded_side_data side data, dispositions
\* and tags not shown; print_pkt_side_data opens the side datum
show_stream_calls(container, nb_coded_side_data) ==
    LET data[i \in 0 .. nb_coded_side_data] ==
            IF i = 0 THEN << >>
            ELSE data[i - 1] \o <<Open("STREAM_SIDE_DATA"), Close>>
    IN  <<Open(stream_section_header[container + 1])>>
        \o (IF nb_coded_side_data # 0
            THEN <<Open("STREAM_SIDE_DATA_LIST")>>
                 \o data[nb_coded_side_data] \o <<Close>>
            ELSE << >>)
        \o <<Close>>

\* show_streams of a file with one selected stream
show_streams_calls(nb_coded_side_data) ==
    <<Open("STREAMS")>> \o show_stream_calls(0, nb_coded_side_data) \o <<Close>>

\* show_program of a program that holds the stream, program tags not shown
show_program_calls(nb_coded_side_data) ==
    <<Open("PROGRAM"), Open("PROGRAM_STREAMS")>>
    \o show_stream_calls(1, nb_coded_side_data) \o <<Close, Close>>

\* show_programs of a file with nb_programs programs
show_programs_calls(nb_programs, nb_coded_side_data) ==
    <<Open("PROGRAMS")>>
    \o (IF nb_programs # 0 THEN show_program_calls(nb_coded_side_data)
        ELSE << >>)
    \o <<Close>>

\* probe_file from the frames and packets to the streams
probe_file_calls(name, o, pkts, nb_programs, nb_coded_side_data) ==
    LET section_id ==
            IF o.do_show_frames /\ o.do_show_packets
               /\ WRITER_FLAG_PUT_PACKETS_AND_FRAMES_IN_SAME_CHAPTER
                      \in registered_writers[name].flags
            THEN "PACKETS_AND_FRAMES"
            ELSE IF o.do_show_packets /\ ~o.do_show_frames THEN "PACKETS"
            ELSE "FRAMES"
        shown == o.do_show_frames \/ o.do_show_packets
    IN  (IF o.do_read_frames \/ o.do_read_packets
         THEN (IF shown THEN <<Open(section_id)>> ELSE << >>)
              \o read_packets_calls(o, pkts)
              \o (IF shown THEN <<Close>> ELSE << >>)
         ELSE << >>)
        \o (IF o.do_show_programs
            THEN show_programs_calls(nb_programs, nb_coded_side_data)
            ELSE << >>)
        \o (IF o.do_show_streams THEN show_streams_calls(nb_coded_side_data)
            ELSE << >>)

\* main: the Root header, probe_file, the Root footer
main_calls(name, o, pkts, nb_programs, nb_coded_side_data) ==
    <<Open("ROOT")>>
    \o probe_file_calls(name, o, pkts, nb_programs, nb_coded_side_data)
    \o <<Close>>

\* packets read from one input
MaxPackets == 2

\* side data of the stream
MaxSideData == 1

\* what the decoder gives for a packet
Decoded == {"none", "frame", "subtitle"}

\* the do_show_* and do_read_* options after parse_options and main:
\* do_read_frames = do_show_frames || do_count_frames, and the same for packets
ProbeOptions ==
    { [ do_show_frames |-> sf, do_show_packets |-> sp,
        do_show_programs |-> spr, do_show_streams |-> sst,
        do_read_frames |-> sf \/ cf, do_read_packets |-> sp \/ cp ] :
        sf \in BOOLEAN, sp \in BOOLEAN, spr \in BOOLEAN, sst \in BOOLEAN,
        cf \in BOOLEAN, cp \in BOOLEAN }

InitProbe ==
    /\ \E name \in WriterNames :
           /\ wctx = writer_open(name, "REPLACE", Replacement)
           /\ \E o \in ProbeOptions, pkts \in SeqsUpTo(Decoded, MaxPackets),
                 nb_programs \in 0 .. 1, nb_coded_side_data \in 0 .. MaxSideData :
                  run = [ pc |-> 1, options |-> o,
                          calls |-> main_calls(name, o, pkts, nb_programs,
                                               nb_coded_side_data) ]
    /\ bk = NoBackend
    /\ log = NoLog
    /\ halt = "no"
    /\ show_optional_fields = SHOW_OPTIONAL_FIELDS_AUTO
    /\ filt = NoFilter
    /\ call = NoOutCall

\* the next call is writer_print_section_header(w, NULL, id)
ProbeOpen ==
    /\ halt = "no"
    /\ run.pc <= Len(run.calls)
    /\ run.calls[run.pc][1] = "open"
    /\ Becomes(writer_print_section_header(cur, run.calls[run.pc][2]))
    /\ call' = [NoOutCall EXCEPT
                    !.op = "open", !.id = run.calls[run.pc][2],
                    !.level = wctx.level + 1,
                    !.parent = IF wctx.level >= 0 THEN wctx.section[wctx.level]
                               ELSE SECTION_ID_NONE]
    /\ run' = [run EXCEPT !.pc = @ + 1]
    /\ UNCHANGED <<show_optional_fields, filt>>

\* the next call is writer_print_section_footer(w)
ProbeClose ==
    /\ halt = "no"
    /\ run.pc <= Len(run.calls)
    /\ run.calls[run.pc][1] = "close"
    /\ Becomes(writer_print_section_footer(cur, "continue"))
    /\ call' = [NoOutCall EXCEPT
                    !.op = "close", !.id = wctx.section[wctx.level],
                    !.level = wctx.level]
    /\ run' = [run EXCEPT !.pc = @ + 1]
    /\ UNCHANGED <<show_optional_fields, filt>>

NextProbe ==
    \/ ProbeOpen
    \/ ProbeClose

SpecProbe == InitProbe /\ [][NextProbe]_vars

\* C18: every section the probing code opens is listed in the children_ids
\* of the section that was open when it was opened, whatever the show
\* options and the backend
C18_OpensAreListedChildren ==
    (call.op = "open" /\ call.parent # SECTION_ID_NONE)
    => \E i \in DOMAIN sections[call.parent].children_ids :
           sections[call.parent].children_ids[i] = call.id

(* ---------------------------------------------------------------- *)
(* JSON separators                                                  *)
(* ---------------------------------------------------------------- *)

\* the text of the last call starts with a comma separator: ",\n" before a
\* section, item_sep (", " or ",\n") before a field
StartsWithComma ==
    /\ bk.out # << >>
    /\ Head(bk.out) \in {Str(",\n"), Str(", ")}

\* the last call wrote a field or opened a child section
WroteFieldOrSection ==
    \/ call.op = "open"
    \/ call.op \in {"int", "str"} /\ call.fwd

\* C19: in the JSON backend a field or child section is preceded by a comma
\* separator exactly when a sibling (field or child section) was written
\* before it in the same enclosing object or array
C19_CommaIffSiblingWritten ==
    WroteFieldOrSection => (StartsWithComma <=> call.written_before > 0)

(* ---------------------------------------------------------------- *)
(* SpecOpen: main selects and constructs the backend                *)
(* ---------------------------------------------------------------- *)

\* AVERROR(EINVAL)
AVERROR_EINVAL == -22

\* the keys of the separator option in the option table of a writer
\* (compact_options and csv_options: item_sep, s; flat_options: sep_char, s)
separator_options(name) ==
    IF name \in {"compact", "csv"} THEN {"item_sep", "s"}
    ELSE IF name = "flat" THEN {"sep_char", "s"}
    ELSE {}

\* the default of the separator option: "|", "," and "."
separator_default(name) ==
    IF name = "compact" THEN <<124>>
    ELSE IF name = "csv" THEN <<44>>
    ELSE <<46>>

\* the separator string after the av_opt_set calls of writer_open
separator_str(name, opts) ==
    LET set[i \in 0 .. Len(opts)] ==
            IF i = 0 THEN separator_default(name)
            ELSE IF opts[i][1] \in separator_options(name) THEN opts[i][2]
            ELSE set[i - 1]
    IN  set[Len(opts)]

\* an init that takes the first character of the separator string without
\* looking at its length
compact_init_nocheck(item_sep_str, escape_mode_str) ==
    IF escape_mode_str \notin {"none", "c", "csv"}
    THEN [ret |-> AVERROR_EINVAL, error |-> 1]
    ELSE [ret |-> 0, error |-> 0]

\* compact_init: the return value and the error lines logged
compact_init(item_sep_str, escape_mode_str) ==
    IF Len(item_sep_str) # 1
    THEN [ret |-> AVERROR_EINVAL, error |-> 1]
    ELSE IF escape_mode_str \notin {"none", "c", "csv"}
    THEN [ret |-> AVERROR_EINVAL, error |-> 1]
    ELSE [ret |-> 0, error |-> 0]

\* flat_init
flat_init(sep_str) ==
    IF Len(sep_str) # 1
    THEN [ret |-> AVERROR_EINVAL, error |-> 1]
    ELSE [ret |-> 0, error |-> 0]

\* wctx->writer->init, for the writers that have one and can fail here
writer_init(name, opts) ==
    IF name = "compact" THEN compact_init(separator_str(name, opts), "c")
    ELSE IF name = "csv" THEN compact_init(separator_str(name, opts), "csv")
    ELSE IF name = "flat" THEN flat_init(separator_str(name, opts))
    ELSE [ret |-> 0, error |-> 0]

\* writer_open: the return value and the error lines logged. args holds what
\* av_dict_parse_string makes of the argument string (its return value and
\* the key=value pairs); av_opt_set fails on a key that is in no option
\* table of the writer; avio_ret is what avio_open returns for -o
writer_open_ret(name, args, output, avio_ret) ==
    IF args.given /\ args.parse_ret < 0
    THEN [ret |-> args.parse_ret, error |-> 1]
    ELSE IF /\ args.given
            /\ \E i \in DOMAIN args.opts :
                   args.opts[i][1] \notin separator_options(name)
    THEN [ret |-> -1414549496, error |-> 1]
    ELSE IF output /\ avio_ret < 0
    THEN [ret |-> avio_ret, error |-> 1]
    ELSE writer_init(name, IF args.given THEN args.opts ELSE << >>)

\* writer_get_by_name
writer_get_by_name(name) ==
    IF name \in WriterNames THEN name ELSE "NULL"

\* the -of / -print_format values: a registered name or not, then no
\* argument string, one av_dict_parse_string rejects, a separator of zero,
\* one or two characters, or an option no writer has
OpenNames == WriterNames \cup {"bogus"}

OpenArgs ==
    { [given |-> FALSE, parse_ret |-> 0, opts |-> << >>],
      [given |-> TRUE, parse_ret |-> AVERROR_EINVAL, opts |-> << >>],
      [given |-> TRUE, parse_ret |-> 0, opts |-> << <<"bogus", <<59>>>> >>] }
    \cup { [given |-> TRUE, parse_ret |-> 0, opts |-> << <<"s", sep>> >>] :
              sep \in {<< >>, <<59>>, <<59, 59>>} }

\* main after parse_options: the output format split into w_name and w_args,
\* the output on stdout or in a file that can be opened or not, no input file
\* needed (-show_program_version and the like)
InitOpen ==
    /\ wctx = "NULL"
    /\ bk = NoBackend
    /\ log = NoLog
    /\ halt = "no"
    /\ show_optional_fields = SHOW_OPTIONAL_FIELDS_AUTO
    /\ filt = NoFilter
    /\ call = NoOutCall
    /\ \E w_name \in OpenNames, w_args \in OpenArgs, output \in BOOLEAN,
          avio_ret \in {0, -2} :
           /\ (~output => avio_ret = 0)
           /\ run = [ pc |-> "main", w_name |-> w_name, w_args |-> w_args,
                      output |-> output, avio_ret |-> avio_ret,
                      w |-> "NULL", ret |-> 0, exit |-> 0 ]

\* main: w = writer_get_by_name(w_name); if (!w) { error; goto end; }
MainGetWriter ==
    /\ run.pc = "main"
    /\ IF writer_get_by_name(run.w_name) = "NULL"
       THEN /\ log' = [log EXCEPT !.error = @ + 1]
            /\ run' = [run EXCEPT !.ret = AVERROR_EINVAL, !.pc = "end"]
       ELSE /\ log' = log
            /\ run' = [run EXCEPT !.w = writer_get_by_name(run.w_name),
                                  !.pc = "open"]
    /\ UNCHANGED <<wctx, bk, halt, show_optional_fields, filt, call>>

\* main once writer_open returned r
MainOpened(r) ==
    /\ log' = [log EXCEPT !.error = @ + r.error]
    /\ IF r.ret >= 0
       THEN /\ wctx' = writer_open(run.w, "REPLACE", Replacement)
            /\ run' = [run EXCEPT !.ret = r.ret, !.pc = "root"]
       ELSE /\ wctx' = wctx
            /\ run' = [run EXCEPT !.ret = r.ret, !.pc = "end"]
    /\ UNCHANGED <<bk, halt, show_optional_fields, filt, call>>

\* main: if ((ret = writer_open(&wctx, w, w_args, ...)) >= 0) { ... }
MainWriterOpen ==
    /\ run.pc = "open"
    /\ MainOpened(writer_open_ret(run.w, run.w_args, run.output, run.avio_ret))

\* main: writer_print_section_header(wctx, NULL, SECTION_ID_ROOT)
MainRootHeader ==
    /\ run.pc = "root"
    /\ Becomes(writer_print_section_header(cur, "ROOT"))
    /\ run' = [run EXCEPT !.pc = "footer"]
    /\ UNCHANGED <<show_optional_fields, filt, call>>

\* main: writer_print_section_footer(wctx); ret = writer_close(&wctx)
MainRootFooter ==
    /\ run.pc = "footer"
    /\ Becomes(writer_print_section_footer(cur, "continue"))
    /\ run' = [run EXCEPT !.pc = "end",
                          !.ret = writer_close(bk, run.output)]
    /\ UNCHANGED <<show_optional_fields, filt, call>>

\* main at the end label: return ret < 0
MainEnd ==
    /\ run.pc = "end"
    /\ run' = [run EXCEPT !.pc = "done",
                          !.exit = IF run.ret < 0 THEN 1 ELSE 0]
    /\ UNCHANGED <<wctx, bk, log, halt, show_optional_fields, filt, call>>

NextOpen ==
    \/ MainGetWriter
    \/ MainWriterOpen
    \/ MainRootHeader
    \/ MainRootFooter
    \/ MainEnd

SpecOpen == InitOpen /\ [][NextOpen]_vars

\* the separator option is given and is not exactly one character
BadSeparator ==
    /\ run.w_args.parse_ret >= 0
    /\ \E i \in DOMAIN run.w_args.opts :
           /\ run.w_args.opts[i][1] \in separator_options(run.w_name)
           /\ Len(run.w_args.opts[i][2]) # 1

\* an unknown backend name, a malformed argument string or a bad separator
BadConfiguration ==
    \/ run.w_name \notin WriterNames
    \/ run.w_args.given /\ run.w_args.parse_ret < 0
    \/ BadSeparator

\* C20: an unknown backend name, a malformed backend argument string or a
\* separator that is not exactly one character is rejected while the backend
\* is constructed: no section is ever opened, not even Root, an error is
\* logged and the run ends with a failure status
C20_BadConfigurationRejected ==
    BadConfiguration
    => /\ bk.hdr_calls = 0
       /\ run.pc = "done" => (run.exit = 1 /\ log.error > 0)

\* the run of the compact writer with a separator of two characters ended
C20_Witness ==
    /\ run.pc = "done"
    /\ run.w_name = "compact"
    /\ BadSeparator
    /\ run.exit = 1
    /\ bk.hdr_calls = 0

(* ---------------------------------------------------------------- *)
(* Claims on validated and optional strings (Spec)                  *)
(* ---------------------------------------------------------------- *)

\* s holds a byte that occurs in no UTF-8 sequence (0xFE, 0xFF)
HasInvalidSequence(s) == \E i \in DOMAIN s : s[i] >= 254

\* the last call was a string emit with validation requested, under the Fail
\* mode, of a key or value with an invalid sequence
FailedValidationEmit ==
    /\ call.op = "str"
    /\ PRINT_STRING_VALIDATE \in call.flags
    /\ wctx.string_validation = "FAIL"
    /\ HasInvalidSequence(call.key) \/ HasInvalidSequence(call.val)

\* the string field of the last call got past the optional-fields policy and
\* the section filter
ReachedValidator ==
    /\ show_optional_fields # SHOW_OPTIONAL_FIELDS_NEVER
    /\ show_entry(filt, EmitSection, call.key)

OptionalEmitShown ==
    /\ call.op = "str"
    /\ PRINT_STRING_OPT \in call.flags
    /\ show_entry(filt, EmitSection, call.key)

\* the active backend declares WRITER_FLAG_DISPLAY_OPTIONAL_FIELDS
DisplaysOptionalFields ==
    WRITER_FLAG_DISPLAY_OPTIONAL_FIELDS \in registered_writers[wctx.writer].flags

\* C24: a string field emitted with the OPTIONAL flag that passes the section
\* filter is forwarded to the backend, under Auto, exactly when the backend
\* declares support for optional fields; under Always it is forwarded and
\* under Never it is not
C24_OptionalFieldPolicy ==
    OptionalEmitShown =>
        (call.fwd <=>
            IF show_optional_fields = SHOW_OPTIONAL_FIELDS_AUTO
            THEN DisplaysOptionalFields
            ELSE show_optional_fields = SHOW_OPTIONAL_FIELDS_ALWAYS)

\* under Auto an optional field was kept from a backend without the flag
C24_Witness ==
    /\ OptionalEmitShown
    /\ show_optional_fields = SHOW_OPTIONAL_FIELDS_AUTO
    /\ ~DisplaysOptionalFields
    /\ ~call.fwd

(* ---------------------------------------------------------------- *)
(* C22: elements of two kinds in the combined array                 *)
(* ---------------------------------------------------------------- *)

\* the backends with WRITER_FLAG_PUT_PACKETS_AND_FRAMES_IN_SAME_CHAPTER, for
\* which probe_file opens the combined array
CombinedWriters ==
    { name \in WriterNames :
        WRITER_FLAG_PUT_PACKETS_AND_FRAMES_IN_SAME_CHAPTER
            \in registered_writers[name].flags }

\* the sections of a run that fills the combined array
CombinedIds == {"ROOT", "PACKETS_AND_FRAMES", "PACKET", "FRAME", "SUBTITLE"}

NextCombined ==
    \/ \E id \in CombinedIds : OutOpen(id)
    \/ OutClose
    \/ \E key \in OutIntKeys : OutPrintInteger(key)
    \/ \E s \in OutStringInputs : OutPrintString(s[1], s[2], s[3])

SpecCombined == InitOut(CombinedWriters) /\ [][NextCombined]_vars

\* the names of the sections of ids, in order
KindNames(ids) == [ i \in DOMAIN ids |-> sections[ids[i]].name ]

\* C22: in every backend that renders the combined array, the elements
\* written are the elements opened, one for one and in the order of
\* opening, each labelled with the name of its own kind (the injected
\* "type" member in JSON, the section name in the others); children opened
\* in the order A, B, A give three elements labelled A, B, A
C22_ElementsInOrderWithKind ==
    run.labels = KindNames(run.elems)

\* a packet, a frame and a packet again have been opened and labelled
C22_Witness ==
    /\ run.elems = <<"PACKET", "FRAME", "PACKET">>
    /\ run.labels = <<"packet", "frame", "packet">>
    /\ ElementOpened

(* ---------------------------------------------------------------- *)
(* SpecMain: one run of main from writer_open to the end, with the  *)
(* failures of probing                                              *)
(* ---------------------------------------------------------------- *)

\* exit(1) inside a callee, and writer_close(&wctx) of main
Exit == <<"exit", SECTION_ID_NONE>>
Destroy == <<"destroy", SECTION_ID_NONE>>

\* what open_input_file does: it returns 0, returns an error
\* (avformat_open_input, avformat_find_stream_info, an option not found),
\* or leaves the process with exit(1) (av_calloc, filter_codec_opts,
\* avcodec_alloc_context3, avcodec_parameters_to_context, avcodec_open2)
OpenInputOutcomes == {"ok", "error", "exit"}

\* show_error
show_error_calls == <<Open("ERROR"), Close>>

\* show_programs when show_tags of the first program returns an error:
\* show_program leaves by its end label, the loop of show_programs breaks
show_programs_failing_calls ==
    <<Open("PROGRAMS"), Open("PROGRAM"), Open("PROGRAM_TAGS"), Close, Close, Close>>

\* probe_file after open_input_file returned 0, up to the first CHECK_END that
\* leaves when tags_fail (show_tags of a program fails), else to its end
probe_file_failing_calls(name, o, pkts, nb_programs, nb_coded_side_data, tags_fail) ==
    IF tags_fail /\ o.do_show_programs /\ nb_programs # 0
    THEN probe_file_calls(name, [o EXCEPT !.do_show_programs = FALSE,
                                          !.do_show_streams = FALSE],
                          pkts, nb_programs, nb_coded_side_data)
         \o show_programs_failing_calls
    ELSE probe_file_calls(name, o, pkts, nb_programs, nb_coded_side_data)

\* main from the Root header to writer_close: input is the outcome of
\* open_input_file, do_show_error the option of that name
main_run_calls(name, o, pkts, nb_programs, nb_coded_side_data, tags_fail, input, do_show_error) ==
    <<Open("ROOT")>>
    \o (IF input = "exit" THEN <<Exit>>
        ELSE (IF input = "error" THEN << >>
              ELSE probe_file_failing_calls(name, o, pkts, nb_programs,
                                            nb_coded_side_data, tags_fail))
             \o (IF /\ do_show_error
                    /\ \/ input = "error"
                       \/ tags_fail /\ o.do_show_programs /\ nb_programs # 0
                 THEN show_error_calls ELSE << >>)
             \o <<Close, Destroy>>)

\* the backends of the runs of SpecMain
MainWriters == {"default", "json"}

InitMain ==
    /\ \E name \in MainWriters :
           /\ wctx = writer_open(name, "REPLACE", Replacement)
           /\ \E o \in ProbeOptions, pkts \in SeqsUpTo(Decoded, 1),
                 nb_programs \in 0 .. 1, tags_fail \in BOOLEAN,
                 input \in OpenInputOutcomes, do_show_error \in BOOLEAN :
                  run = [ pc |-> 1, options |-> o,
                          calls |-> main_run_calls(name, o, pkts, nb_programs, 0,
                                                   tags_fail, input, do_show_error),
                          end |-> "running" ]
    /\ bk = NoBackend
    /\ log = NoLog
    /\ halt = "no"
    /\ show_optional_fields = SHOW_OPTIONAL_FIELDS_AUTO
    /\ filt = NoFilter
    /\ call = NoOutCall

\* exit(1): the process ends where it is
MainExit ==
    /\ run.end = "running"
    /\ run.pc <= Len(run.calls)
    /\ run.calls[run.pc] = Exit
    /\ run' = [run EXCEPT !.pc = @ + 1, !.end = "exit"]
    /\ call' = [NoOutCall EXCEPT !.op = "exit"]
    /\ UNCHANGED <<wctx, bk, log, halt, show_optional_fields, filt>>

\* writer_close(&wctx): the writer is destroyed
MainWriterClose ==
    /\ run.end = "running"
    /\ run.pc <= Len(run.calls)
    /\ run.calls[run.pc] = Destroy
    /\ run' = [run EXCEPT !.pc = @ + 1, !.end = "destroyed"]
    /\ call' = [NoOutCall EXCEPT !.op = "destroy"]
    /\ UNCHANGED <<wctx, bk, log, halt, show_optional_fields, filt>>

NextMain ==
    \/ ProbeOpen
    \/ ProbeClose
    \/ MainExit
    \/ MainWriterClose

SpecMain == InitMain /\ [][NextMain]_vars

\* Root headers among the calls made so far
RootOpens ==
    Cardinality({ i \in 1 .. (run.pc - 1) : run.calls[i] = Open("ROOT") })

\* C23: a run that constructed the writer ends with the writer destroyed,
\* after exactly one Root header and with every section opened since, Root
\* included, closed again (no section is open any more), also when
\* probing fails or a producer returns early with an error
C23_RootOpenedAndClosedOnce ==
    run.end # "running" =>
        /\ run.end = "destroyed"
        /\ RootOpens = 1
        /\ wctx.level = -1

(* ---------------------------------------------------------------- *)
(* SpecEntries: the -show_entries option names sections             *)
(* ---------------------------------------------------------------- *)

\* a comparison with the name alone
matching_sections_by_name(section_name) ==
    { id \in SectionID : section_name = sections[id].name }

\* the ids of sections[] whose name or unique_name is section_name
matching_sections(section_name) ==
    { id \in SectionID :
        \/ section_name = sections[id].name
        \/ /\ sections[id].unique_name # "NULL"
           /\ section_name = sections[id].unique_name }

RECURSIVE mark_matching(_, _, _, _)
\* the calls mark_section_show_entries(section->id, ..) of the loop of
\* match_section, one per matching section; they get the same arguments
\* and so give the same filter in any order
mark_matching(f, ids, show_all_entries, entries) ==
    IF ids = {} THEN f
    ELSE LET id == CHOOSE x \in ids : TRUE
         IN  mark_matching(mark_section_show_entries(f, id, show_all_entries, entries),
                           ids \ {id}, show_all_entries, entries)

\* match_section: [f, ret], ret the number of sections matched
match_section(f, section_name, show_all_entries, entries) ==
    [ f |-> mark_matching(f, matching_sections(section_name),
                          show_all_entries, entries),
      ret |-> Cardinality(matching_sections(section_name)) ]

\* section names of the requests: names shared by several sections, unique
\* names, and a name no section has
RequestNames ==
    { "tags", "format_tags", "stream_tags", "format", "stream", "streams",
      "packets_and_frames", "nosuch" }

\* what follows the name in a request: nothing (show_all_entries = 1), or
\* "=" and a list of entries, which may be empty
RequestEntries ==
    { [show_all_entries |-> TRUE, entries |-> {}] }
    \cup { [show_all_entries |-> FALSE, entries |-> e] :
             e \in { {}, {KeyA}, {KeyB, KeyC} } }

\* turns of the while loop of opt_show_entries in one run
MaxRequests == 2

InitEntries ==
    /\ wctx = writer_open("default", "REPLACE", Replacement)
    /\ bk = NoBackend
    /\ log = NoLog
    /\ halt = "no"
    /\ show_optional_fields = SHOW_OPTIONAL_FIELDS_AUTO
    /\ filt = NoFilter
    /\ call = NoCall
    /\ run = [pc |-> "options", requests |-> 0, section_name |-> "",
              show_all_entries |-> FALSE, entries |-> {}, ret |-> 0,
              before |-> NoFilter]

\* what a turn of the loop leaves: r is the result of match_section
ShowEntriesDone(r, section_name, show_all_entries, entries) ==
    /\ filt' = r.f
    /\ run' = [pc |-> IF r.ret = 0 THEN "failed" ELSE "options",
               requests |-> run.requests + 1, section_name |-> section_name,
               show_all_entries |-> show_all_entries, entries |-> entries,
               ret |-> IF r.ret = 0 THEN AVERROR_EINVAL ELSE r.ret,
               before |-> filt]
    /\ UNCHANGED <<wctx, bk, log, halt, show_optional_fields, call>>

\* one turn of the while loop of opt_show_entries: the request
\* section_name (show all entries) or section_name=entries
OptShowEntries(section_name, show_all_entries, entries) ==
    /\ run.pc = "options"
    /\ run.requests < MaxRequests
    /\ ShowEntriesDone(match_section(filt, section_name, show_all_entries, entries),
                       section_name, show_all_entries, entries)

NextEntries ==
    \E section_name \in RequestNames, e \in RequestEntries :
        OptShowEntries(section_name, e.show_all_entries, e.entries)

SpecEntries == InitEntries /\ [][NextEntries]_vars

\* the last turn handled a request
RequestHandled == run.requests >= 1

\* the descriptors whose name or unique_name is the name of the last request
NamedByRequest ==
    { id \in SectionID :
        run.section_name \in {sections[id].name, sections[id].unique_name} }

\* the filter of id is as it was before the last request
FilterKept(id) ==
    /\ filt.show_all_entries[id] = run.before.show_all_entries[id]
    /\ filt.entries_to_show[id] = run.before.entries_to_show[id]

\* the last request was applied to the filter of id
FilterApplied(id) ==
    IF run.show_all_entries THEN filt.show_all_entries[id]
    ELSE /\ ~filt.show_all_entries[id]
         /\ filt.entries_to_show[id]
                = run.before.entries_to_show[id] \cup run.entries

\* C27: a show-entries request that names a section applies the filter to
\* every descriptor of sections[] whose name or unique_name equals the name,
\* and changes the filter of no descriptor other than those and, for a
\* show-all request, their descendants
C27_RequestAppliesToNamed ==
    RequestHandled =>
        /\ \A id \in NamedByRequest : FilterApplied(id)
        /\ \A id \in SectionID \ (IF run.show_all_entries
                                  THEN ReachableFrom(NamedByRequest)
                                  ELSE NamedByRequest) : FilterKept(id)

\* the request tags=a reached the tags of the format and of a stream, and
\* the request format_tags=a only the former
C27_Witness ==
    /\ RequestHandled
    /\ run.requests = 2
    /\ run.section_name = "format_tags"
    /\ run.entries = {KeyA}
    /\ ~run.show_all_entries
    /\ run.before.entries_to_show["FORMAT_TAGS"] = {KeyB, KeyC}
    /\ filt.entries_to_show["FORMAT_TAGS"] = {KeyA, KeyB, KeyC}
    /\ filt.entries_to_show["STREAM_TAGS"] = {KeyB, KeyC}
    /\ filt.entries_to_show["FORMAT"] = {}

(* ---------------------------------------------------------------- *)
(* SpecXml: the XML backend under the call order of the producers   *)
(* ---------------------------------------------------------------- *)

\* the show_* functions emit the fields of a section without variable
\* fields before they open its first child section: no field follows the
\* footer of a child there
FieldsBeforeChildren ==
    /\ wctx.level >= 1
    /\ \/ "HAS_VARIABLE_FIELDS" \in sections[wctx.section[wctx.level]].flags
       \/ call.op # "close"

NextXml ==
    \/ \E id \in SectionID : OutOpen(id)
    \/ OutClose
    \/ \E key \in OutIntKeys : FieldsBeforeChildren /\ OutPrintInteger(key)
    \/ \E s \in OutStringInputs :
           FieldsBeforeChildren /\ OutPrintString(s[1], s[2], s[3])

SpecXml == InitOut({"xml"}) /\ [][NextXml]_vars

\* the last call emitted a field that reached the XML backend
XmlFieldWritten ==
    /\ wctx.writer = "xml"
    /\ call.op \in {"int", "str"}
    /\ call.fwd

\* the value of the last field as the XML backend writes it
XmlValue ==
    IF call.op = "int" THEN Num(7) ELSE Chars(xml_escape_str(call.val))

\* the text from position i of the last call on
OutFrom(i) == SubSeq(bk.out, i, Len(bk.out))

\* C28: in the XML backend a field of a section with HAS_VARIABLE_FIELDS is
\* written as an element of its own, <element_name key="k" value="v"/>, on
\* an indented line, and a field of a section without variable fields is
\* written as the attribute k="v" inside the opening tag of its section,
\* which is still open, after at most one separating blank
C28_XmlFieldRendering ==
    XmlFieldWritten =>
        IF "HAS_VARIABLE_FIELDS" \in sections[call.id].flags
        THEN /\ bk.out[1].t = "indent"
             /\ OutFrom(2) = <<Str("<"), Str(sections[call.id].element_name),
                               Str(" key=\""), Chars(xml_escape_str(call.key)),
                               Str("\""), Str(" value=\""), XmlValue,
                               Str("\"/>\n")>>
        ELSE /\ bk.priv.within_tag = 1
             /\ \E blank \in { << >>, <<Str(" ")>> } :
                    bk.out = blank \o <<Chars(call.key), Str("=\""), XmlValue,
                                        Str("\"")>>

\* a pair of the tags of the format came out as <tag key="a" value="A"/>
C28_Witness ==
    /\ XmlFieldWritten
    /\ call.id = "FORMAT_TAGS"
    /\ call.op = "str"
    /\ call.key = KeyA /\ call.val = ValGood
    /\ OutFrom(2) = <<Str("<"), Str("tag"), Str(" key=\""), Chars(<<97>>),
                      Str("\""), Str(" value=\""), Chars(<<65>>), Str("\"/>\n")>>

(* ---------------------------------------------------------------- *)
(* SpecText: the bytes one section makes in the Default backend     *)
(* ---------------------------------------------------------------- *)

\* the bytes of the literal strings and section names the backends write
\* in the runs below
StrBytes(s) ==
    CASE s = "[" -> <<91>>
      [] s = "]\n" -> <<93, 10>>
      [] s = "[/" -> <<91, 47>>
      [] s = "=" -> <<61>>
      [] s = "\n" -> <<10>>
      [] s = "\"" -> <<34>>
      [] s = "\"\n" -> <<34, 10>>
      [] s = ":" -> <<58>>
      [] s = "" -> << >>
      [] s = "format" -> <<102, 111, 114, 109, 97, 116>>
      [] s = "error" -> <<101, 114, 114, 111, 114>>
      [] s = "streams" -> <<115, 116, 114, 101, 97, 109, 115>>
      [] s = "stream" -> <<115, 116, 114, 101, 97, 109>>

\* upcase_string: av_toupper of every byte
upcase_string(src) ==
    [ i \in DOMAIN src |-> IF src[i] >= 97 /\ src[i] <= 122 THEN src[i] - 32
                           ELSE src[i] ]

RECURSIVE DecimalBytes(_)
\* %d of a number that is not negative
DecimalBytes(n) ==
    IF n < 10 THEN <<48 + n>> ELSE DecimalBytes(n \div 10) \o <<48 + (n % 10)>>

\* the bytes of one token of text
TokenBytes(t) ==
    CASE t.t = "bytes" -> t.k
      [] t.t = "str" -> StrBytes(t.s)
      [] t.t = "upcase" -> upcase_string(StrBytes(t.s))
      [] t.t = "num" -> DecimalBytes(t.n)
      [] t.t = "indent" -> [ i \in 1 .. t.n |-> 32 ]

RECURSIVE TextBytes(_)
\* the bytes of a text
TextBytes(text) ==
    IF text = << >> THEN << >>
    ELSE TokenBytes(Head(text)) \o TextBytes(Tail(text))

\* "format_name" and "mp4"
KeyFormatName == <<102, 111, 114, 109, 97, 116, 95, 110, 97, 109, 101>>
ValMp4 == <<109, 112, 52>>

\* the sections below Root, keys and values of the runs
TextSections == {"FORMAT", "ERROR"}
TextKeys == {KeyFormatName, KeyA}
TextVals == {ValMp4, ValGood}

\* a run opens Root and one section, emits one string field, and closes
\* both; text collects the bytes written
InitText ==
    /\ wctx = writer_open("default", "REPLACE", Replacement)
    /\ \E nk \in BOOLEAN, nw \in BOOLEAN : bk = BackendOf(DefaultContext(nk, nw))
    /\ log = NoLog
    /\ halt = "no"
    /\ show_optional_fields = SHOW_OPTIONAL_FIELDS_AUTO
    /\ filt = mark_all(NoFilter, <<"ROOT">>, TRUE, {})
    /\ call = NoOutCall
    /\ \E id \in TextSections, key \in TextKeys, val \in TextVals :
           run = [pc |-> "open_root", id |-> id, key |-> key, val |-> val,
                  text |-> << >>]

\* the call made r of the cursor: its text is appended
TextCalled(r, pc) ==
    /\ Becomes(r)
    /\ run' = [run EXCEPT !.pc = pc, !.text = @ \o TextBytes(r.b.out)]
    /\ UNCHANGED <<show_optional_fields, filt, call>>

\* open_section(Root), open_section(run.id)
TextOpen ==
    /\ run.pc \in {"open_root", "open"}
    /\ TextCalled(header_with_hook(
                      writer_print_section_header(
                          Cursor(wctx, bk, NoLog, halt),
                          IF run.pc = "open_root" THEN "ROOT" ELSE run.id),
                      << >>),
                  IF run.pc = "open_root" THEN "open" ELSE "emit")

\* emit_string(run.key, run.val)
TextPrintString ==
    /\ run.pc = "emit"
    /\ TextCalled(print_with_hook(
                      Cursor(wctx, bk, NoLog, halt),
                      writer_print_string(Cursor(wctx, bk, NoLog, halt), filt,
                                          show_optional_fields, run.key, run.val,
                                          {}).c),
                  "close")

\* close_section() of the section and of Root
TextClose ==
    /\ run.pc \in {"close", "close_root"}
    /\ TextCalled(footer_with_hook(
                      Cursor(wctx, bk, NoLog, halt),
                      writer_print_section_footer(Cursor(wctx, bk, NoLog, halt),
                                                  "continue")),
                  IF run.pc = "close" THEN "close_root" ELSE "done")

NextText ==
    \/ TextOpen
    \/ TextPrintString
    \/ TextClose

SpecText == InitText /\ [][NextText]_vars

\* the run open Root, open Format, emit_string("format_name", "mp4"), close
\* Format, close Root is over, with keys and wrappers printed
FormatRunDone ==
    /\ run.pc = "done"
    /\ ~bk.priv.nokey /\ ~bk.priv.noprint_wrappers
    /\ run.id = "FORMAT"
    /\ run.key = KeyFormatName /\ run.val = ValMp4

\* "[FORMAT]\nformat_name=mp4\n[/FORMAT]\n"
FormatSectionBytes ==
    <<91, 70, 79, 82, 77, 65, 84, 93, 10>>
    \o KeyFormatName \o <<61>> \o ValMp4 \o <<10>>
    \o <<91, 47, 70, 79, 82, 77, 65, 84, 93, 10>>

\* C29 as stated: with the Default backend the run open Root, open Format,
\* emit_string("format_name", "mp4"), close Format, close Root writes
\* exactly the bytes "[FORMAT]\nformat_name=mp4\n[/FORMAT]\n\n".
C29_FormatBytesBlankLine ==
    FormatRunDone => run.text = FormatSectionBytes \o <<10>>

\* C29 amended: the run writes exactly the bytes
\* "[FORMAT]\nformat_name=mp4\n[/FORMAT]\n": the [/FORMAT] line ends the
\* section, no empty line follows it.
C29_FormatBytes ==
    FormatRunDone => run.text = FormatSectionBytes

\* the run is over and its text ends with the [/FORMAT] line
C29_Witness ==
    /\ FormatRunDone
    /\ Len(run.text) = 35
    /\ SubSeq(run.text, 26, 35) = <<91, 47, 70, 79, 82, 77, 65, 84, 93, 10>>

(* ---------------------------------------------------------------- *)
(* SpecFlatArray: the lines of array elements in the Flat backend   *)
(* ---------------------------------------------------------------- *)

\* "codec_name" and "h264"
KeyCodecName == <<99, 111, 100, 101, 99, 95, 110, 97, 109, 101>>
ValH264 == <<104, 50, 54, 52>>

\* string fields of the elements
FlatStringInputs ==
    { <<KeyCodecName, ValH264>>, <<KeyCodecName, ValGood>>, <<KeyDotted, ValH264>> }

\* open_section, close_section and emit_string with the Flat backend
NextFlatArray ==
    \/ \E id \in SectionID : OutOpen(id)
    \/ OutClose
    \/ \E s \in FlatStringInputs : OutPrintString(s[1], s[2], {})

SpecFlatArray == InitOut({"flat"}) /\ [][NextFlatArray]_vars

\* an element of an array other than the combined one has just been opened
OrdinaryElementOpened ==
    /\ call.op = "open"
    /\ call.parent # SECTION_ID_NONE
    /\ "IS_ARRAY" \in sections[call.parent].flags
    /\ call.parent # "PACKETS_AND_FRAMES"
    /\ halt = "no"

\* a string field of a Stream was just written, the Stream being the third
\* one opened in its Streams array, with hierarchical on
ThirdStreamField ==
    /\ call.op = "str" /\ call.fwd
    /\ wctx.level = 2
    /\ wctx.section[2] = "STREAM" /\ wctx.section[1] = "STREAMS"
    /\ run.written[1] = 3
    /\ bk.priv.hierarchical /\ bk.priv.sep = 46

\* "streams.stream.2."
ThirdStreamPrefix ==
    <<115, 116, 114, 101, 97, 109, 115, 46, 115, 116, 114, 101, 97, 109, 46,
      50, 46>>

\* C30: with the Flat backend, separator '.' and hierarchical on, a string
\* field key = value of a Stream opened in the Streams array after exactly
\* two earlier Stream siblings were closed is the line
\* streams.stream.2.key="value" (codec_name = h264 gives
\* streams.stream.2.codec_name="h264"); and the index segment of an element
\* of an array other than the combined one is the number of siblings opened
\* and closed before it in that array.
C30_FlatArrayIndex ==
    /\ ThirdStreamField =>
           TextBytes(bk.out) =
               ThirdStreamPrefix \o flat_escape_key_str(call.key) \o <<61, 34>>
               \o flat_escape_value_str(call.val) \o <<34, 10>>
    /\ (ThirdStreamField /\ call.key = KeyCodecName /\ call.val = ValH264) =>
           TextBytes(bk.out) =
               ThirdStreamPrefix \o KeyCodecName \o <<61, 34>> \o ValH264
               \o <<34, 10>>
    /\ OrdinaryElementOpened =>
           IndexSegment(bk.section_pbuf[wctx.level]) = call.written_before

\* codec_name = h264 was written for the third Stream
C30_Witness ==
    /\ ThirdStreamField
    /\ call.key = KeyCodecName /\ call.val = ValH264
    /\ IndexSegment(bk.section_pbuf[wctx.level]) = 2

(* ---------------------------------------------------------------- *)
(* SpecRegistry: walks of the registry from Root                    *)
(* ---------------------------------------------------------------- *)

\* a registry whose entry at [SECTION_ID_FRAME] holds the id of another
\* section
sections_id_misfiled ==
    ("CHAPTERS" :> "CHAPTERS")
    @@ ("CHAPTER" :> "CHAPTER")
    @@ ("CHAPTER_TAGS" :> "CHAPTER_TAGS")
    @@ ("ERROR" :> "ERROR")
    @@ ("FORMAT" :> "FORMAT")
    @@ ("FORMAT_TAGS" :> "FORMAT_TAGS")
    @@ ("FRAMES" :> "FRAMES")
    @@ ("FRAME" :> "SUBTITLE")
    @@ ("FRAME_TAGS" :> "FRAME_TAGS")
    @@ ("FRAME_SIDE_DATA_LIST" :> "FRAME_SIDE_DATA_LIST")
    @@ ("FRAME_SIDE_DATA" :> "FRAME_SIDE_DATA")
    @@ ("FRAME_SIDE_DATA_TIMECODE_LIST" :> "FRAME_SIDE_DATA_TIMECODE_LIST")
    @@ ("FRAME_SIDE_DATA_TIMECODE" :> "FRAME_SIDE_DATA_TIMECODE")
    @@ ("FRAME_SIDE_DATA_COMPONENT_LIST" :> "FRAME_SIDE_DATA_COMPONENT_LIST")
    @@ ("FRAME_SIDE_DATA_COMPONENT" :> "FRAME_SIDE_DATA_COMPONENT")
    @@ ("FRAME_SIDE_DATA_PIECE_LIST" :> "FRAME_SIDE_DATA_PIECE_LIST")
    @@ ("FRAME_SIDE_DATA_PIECE" :> "FRAME_SIDE_DATA_PIECE")
    @@ ("FRAME_LOGS" :> "FRAME_LOGS")
    @@ ("FRAME_LOG" :> "FRAME_LOG")
    @@ ("LIBRARY_VERSIONS" :> "LIBRARY_VERSIONS")
    @@ ("LIBRARY_VERSION" :> "LIBRARY_VERSION")
    @@ ("PACKETS" :> "PACKETS")
    @@ ("PACKETS_AND_FRAMES" :> "PACKETS_AND_FRAMES")
    @@ ("PACKET" :> "PACKET")
    @@ ("PACKET_TAGS" :> "PACKET_TAGS")
    @@ ("PACKET_SIDE_DATA_LIST" :> "PACKET_SIDE_DATA_LIST")
    @@ ("PACKET_SIDE_DATA" :> "PACKET_SIDE_DATA")
    @@ ("PIXEL_FORMATS" :> "PIXEL_FORMATS")
    @@ ("PIXEL_FORMAT" :> "PIXEL_FORMAT")
    @@ ("PIXEL_FORMAT_FLAGS" :> "PIXEL_FORMAT_FLAGS")
    @@ ("PIXEL_FORMAT_COMPONENTS" :> "PIXEL_FORMAT_COMPONENTS")
    @@ ("PIXEL_FORMAT_COMPONENT" :> "PIXEL_FORMAT_COMPONENT")
    @@ ("PROGRAM_STREAM_DISPOSITION" :> "PROGRAM_STREAM_DISPOSITION")
    @@ ("PROGRAM_STREAM_TAGS" :> "PROGRAM_STREAM_TAGS")
    @@ ("PROGRAM" :> "PROGRAM")
    @@ ("PROGRAM_STREAMS" :> "PROGRAM_STREAMS")
    @@ ("PROGRAM_STREAM" :> "PROGRAM_STREAM")
    @@ ("PROGRAM_TAGS" :> "PROGRAM_TAGS")
    @@ ("PROGRAM_VERSION" :> "PROGRAM_VERSION")
    @@ ("PROGRAMS" :> "PROGRAMS")
    @@ ("STREAM_GROUP_STREAM_DISPOSITION" :> "STREAM_GROUP_STREAM_DISPOSITION")
    @@ ("STREAM_GROUP_STREAM_TAGS" :> "STREAM_GROUP_STREAM_TAGS")
    @@ ("STREAM_GROUP" :> "STREAM_GROUP")
    @@ ("STREAM_GROUP_COMPONENTS" :> "STREAM_GROUP_COMPONENTS")
    @@ ("STREAM_GROUP_COMPONENT" :> "STREAM_GROUP_COMPONENT")
    @@ ("STREAM_GROUP_SUBCOMPONENTS" :> "STREAM_GROUP_SUBCOMPONENTS")
    @@ ("STREAM_GROUP_SUBCOMPONENT" :> "STREAM_GROUP_SUBCOMPONENT")
    @@ ("STREAM_GROUP_PIECES" :> "STREAM_GROUP_PIECES")
    @@ ("STREAM_GROUP_PIECE" :> "STREAM_GROUP_PIECE")
    @@ ("STREAM_GROUP_SUBPIECES" :> "STREAM_GROUP_SUBPIECES")
    @@ ("STREAM_GROUP_SUBPIECE" :> "STREAM_GROUP_SUBPIECE")
    @@ ("STREAM_GROUP_BLOCKS" :> "STREAM_GROUP_BLOCKS")
    @@ ("STREAM_GROUP_BLOCK" :> "STREAM_GROUP_BLOCK")
    @@ ("STREAM_GROUP_STREAMS" :> "STREAM_GROUP_STREAMS")
    @@ ("STREAM_GROUP_STREAM" :> "STREAM_GROUP_STREAM")
    @@ ("STREAM_GROUP_DISPOSITION" :> "STREAM_GROUP_DISPOSITION")
    @@ ("STREAM_GROUP_TAGS" :> "STREAM_GROUP_TAGS")
    @@ ("STREAM_GROUPS" :> "STREAM_GROUPS")
    @@ ("ROOT" :> "ROOT")
    @@ ("STREAMS" :> "STREAMS")
    @@ ("STREAM" :> "STREAM")
    @@ ("STREAM_DISPOSITION" :> "STREAM_DISPOSITION")
    @@ ("STREAM_TAGS" :> "STREAM_TAGS")
    @@ ("STREAM_SIDE_DATA_LIST" :> "STREAM_SIDE_DATA_LIST")
    @@ ("STREAM_SIDE_DATA" :> "STREAM_SIDE_DATA")
    @@ ("SUBTITLE" :> "SUBTITLE")

\* the id member of the entry at each designator of sections[]:
\* [SECTION_ID_X] = { SECTION_ID_Y, ... } gives X :> Y
sections_id ==
    ("CHAPTERS" :> "CHAPTERS")
    @@ ("CHAPTER" :> "CHAPTER")
    @@ ("CHAPTER_TAGS" :> "CHAPTER_TAGS")
    @@ ("ERROR" :> "ERROR")
    @@ ("FORMAT" :> "FORMAT")
    @@ ("FORMAT_TAGS" :> "FORMAT_TAGS")
    @@ ("FRAMES" :> "FRAMES")
    @@ ("FRAME" :> "FRAME")
    @@ ("FRAME_TAGS" :> "FRAME_TAGS")
    @@ ("FRAME_SIDE_DATA_LIST" :> "FRAME_SIDE_DATA_LIST")
    @@ ("FRAME_SIDE_DATA" :> "FRAME_SIDE_DATA")
    @@ ("FRAME_SIDE_DATA_TIMECODE_LIST" :> "FRAME_SIDE_DATA_TIMECODE_LIST")
    @@ ("FRAME_SIDE_DATA_TIMECODE" :> "FRAME_SIDE_DATA_TIMECODE")
    @@ ("FRAME_SIDE_DATA_COMPONENT_LIST" :> "FRAME_SIDE_DATA_COMPONENT_LIST")
    @@ ("FRAME_SIDE_DATA_COMPONENT" :> "FRAME_SIDE_DATA_COMPONENT")
    @@ ("FRAME_SIDE_DATA_PIECE_LIST" :> "FRAME_SIDE_DATA_PIECE_LIST")
    @@ ("FRAME_SIDE_DATA_PIECE" :> "FRAME_SIDE_DATA_PIECE")
    @@ ("FRAME_LOGS" :> "FRAME_LOGS")
    @@ ("FRAME_LOG" :> "FRAME_LOG")
    @@ ("LIBRARY_VERSIONS" :> "LIBRARY_VERSIONS")
    @@ ("LIBRARY_VERSION" :> "LIBRARY_VERSION")
    @@ ("PACKETS" :> "PACKETS")
    @@ ("PACKETS_AND_FRAMES" :> "PACKETS_AND_FRAMES")
    @@ ("PACKET" :> "PACKET")
    @@ ("PACKET_TAGS" :> "PACKET_TAGS")
    @@ ("PACKET_SIDE_DATA_LIST" :> "PACKET_SIDE_DATA_LIST")
    @@ ("PACKET_SIDE_DATA" :> "PACKET_SIDE_DATA")
    @@ ("PIXEL_FORMATS" :> "PIXEL_FORMATS")
    @@ ("PIXEL_FORMAT" :> "PIXEL_FORMAT")
    @@ ("PIXEL_FORMAT_FLAGS" :> "PIXEL_FORMAT_FLAGS")
    @@ ("PIXEL_FORMAT_COMPONENTS" :> "PIXEL_FORMAT_COMPONENTS")
    @@ ("PIXEL_FORMAT_COMPONENT" :> "PIXEL_FORMAT_COMPONENT")
    @@ ("PROGRAM_STREAM_DISPOSITION" :> "PROGRAM_STREAM_DISPOSITION")
    @@ ("PROGRAM_STREAM_TAGS" :> "PROGRAM_STREAM_TAGS")
    @@ ("PROGRAM" :> "PROGRAM")
    @@ ("PROGRAM_STREAMS" :> "PROGRAM_STREAMS")
    @@ ("PROGRAM_STREAM" :> "PROGRAM_STREAM")
    @@ ("PROGRAM_TAGS" :> "PROGRAM_TAGS")
    @@ ("PROGRAM_VERSION" :> "PROGRAM_VERSION")
    @@ ("PROGRAMS" :> "PROGRAMS")
    @@ ("STREAM_GROUP_STREAM_DISPOSITION" :> "STREAM_GROUP_STREAM_DISPOSITION")
    @@ ("STREAM_GROUP_STREAM_TAGS" :> "STREAM_GROUP_STREAM_TAGS")
    @@ ("STREAM_GROUP" :> "STREAM_GROUP")
    @@ ("STREAM_GROUP_COMPONENTS" :> "STREAM_GROUP_COMPONENTS")
    @@ ("STREAM_GROUP_COMPONENT" :> "STREAM_GROUP_COMPONENT")
    @@ ("STREAM_GROUP_SUBCOMPONENTS" :> "STREAM_GROUP_SUBCOMPONENTS")
    @@ ("STREAM_GROUP_SUBCOMPONENT" :> "STREAM_GROUP_SUBCOMPONENT")
    @@ ("STREAM_GROUP_PIECES" :> "STREAM_GROUP_PIECES")
    @@ ("STREAM_GROUP_PIECE" :> "STREAM_GROUP_PIECE")
    @@ ("STREAM_GROUP_SUBPIECES" :> "STREAM_GROUP_SUBPIECES")
    @@ ("STREAM_GROUP_SUBPIECE" :> "STREAM_GROUP_SUBPIECE")
    @@ ("STREAM_GROUP_BLOCKS" :> "STREAM_GROUP_BLOCKS")
    @@ ("STREAM_GROUP_BLOCK" :> "STREAM_GROUP_BLOCK")
    @@ ("STREAM_GROUP_STREAMS" :> "STREAM_GROUP_STREAMS")
    @@ ("STREAM_GROUP_STREAM" :> "STREAM_GROUP_STREAM")
    @@ ("STREAM_GROUP_DISPOSITION" :> "STREAM_GROUP_DISPOSITION")
    @@ ("STREAM_GROUP_TAGS" :> "STREAM_GROUP_TAGS")
    @@ ("STREAM_GROUPS" :> "STREAM_GROUPS")
    @@ ("ROOT" :> "ROOT")
    @@ ("STREAMS" :> "STREAMS")
    @@ ("STREAM" :> "STREAM")
    @@ ("STREAM_DISPOSITION" :> "STREAM_DISPOSITION")
    @@ ("STREAM_TAGS" :> "STREAM_TAGS")
    @@ ("STREAM_SIDE_DATA_LIST" :> "STREAM_SIDE_DATA_LIST")
    @@ ("STREAM_SIDE_DATA" :> "STREAM_SIDE_DATA")
    @@ ("SUBTITLE" :> "SUBTITLE")

\* #define SECTION_MAX_NB_CHILDREN
SECTION_MAX_NB_CHILDREN == 11

\* sections a walk can hold: longer than any walk of the registry
MaxPath == 14

\* a walk starts at any section
InitRegistry ==
    /\ wctx = writer_open("default", "REPLACE", Replacement)
    /\ bk = NoBackend
    /\ log = NoLog
    /\ halt = "no"
    /\ show_optional_fields = SHOW_OPTIONAL_FIELDS_AUTO
    /\ filt = NoFilter
    /\ call = NoCall
    /\ \E id \in SectionID : run = [path |-> <<id>>]

\* the walk follows one of the children_ids of its last section
Descend(i) ==
    /\ Len(run.path) < MaxPath
    /\ run.path[Len(run.path)] \in DOMAIN sections
    /\ i \in DOMAIN sections[run.path[Len(run.path)]].children_ids
    /\ run' = [run EXCEPT !.path =
                   Append(@, sections[run.path[Len(run.path)]].children_ids[i])]
    /\ UNCHANGED <<wctx, bk, log, halt, show_optional_fields, filt, call>>

NextRegistry == \E i \in 1 .. SECTION_MAX_NB_CHILDREN : Descend(i)

SpecRegistry == InitRegistry /\ [][NextRegistry]_vars

\* the entries of sections[] that hold the id
StoredUnder(id) == { slot \in DOMAIN sections_id : sections_id[slot] = id }

\* C31: every id reached from Root through children_ids is a registered
\* descriptor, stored exactly once and under its own id; and a walk along
\* children_ids from any section never comes back to a section it has
\* passed (children_ids holds no cycle).
C31_RegistryWellFormed ==
    /\ run.path[1] = "ROOT" =>
           \A i \in DOMAIN run.path :
               /\ run.path[i] \in DOMAIN sections
               /\ StoredUnder(run.path[i]) = {run.path[i]}
    /\ \A i, j \in DOMAIN run.path : i < j => run.path[i] # run.path[j]

\* the longest walk from Root: down to the blocks of a stream group
C31_Witness ==
    /\ run.path[1] = "ROOT"
    /\ Len(run.path) = 13
    /\ run.path[Len(run.path)] = "STREAM_GROUP_BLOCK"
    /\ sections[run.path[Len(run.path)]].children_ids = << >>

(* ---------------------------------------------------------------- *)
(* SpecJsonEscape: json_escape_str and the reading of JSON strings  *)
(* ---------------------------------------------------------------- *)

\* bytes of the strings escaped: the bytes json_escape_str substitutes, other
\* control bytes, and printable bytes, among them the letters and digits
\* its substitutes are made of
EscapeBytes == { 34, 92, 8, 12, 10, 13, 9, 1, 31, 47, 48, 98, 117, 65, 127 }

\* longest string escaped
MaxEscLen == 3

RECURSIVE StringsUpTo(_, _)
\* the strings of at most n bytes of S
StringsUpTo(S, n) ==
    IF n = 0 THEN { << >> }
    ELSE LET shorter == StringsUpTo(S, n - 1)
         IN  shorter \cup { Append(s, ch) : s \in shorter, ch \in S }

\* the value of a hexadecimal digit, -1 if the byte is none
HexValue(ch) ==
    IF ch >= 48 /\ ch <= 57 THEN ch - 48
    ELSE IF ch >= 97 /\ ch <= 102 THEN ch - 87
    ELSE IF ch >= 65 /\ ch <= 70 THEN ch - 55
    ELSE -1

\* the byte a two-character escape stands for (RFC 8259, section 7), -1 if
\* the character after the backslash starts none
JsonEscaped(ch) ==
    CASE ch = 34 -> 34
      [] ch = 92 -> 92
      [] ch = 47 -> 47
      [] ch = 98 -> 8
      [] ch = 102 -> 12
      [] ch = 110 -> 10
      [] ch = 114 -> 13
      [] ch = 116 -> 9
      [] OTHER -> -1

RECURSIVE JsonUnescapeFrom(_, _)
\* the string the characters text[i ..] of a JSON string stand for; ok is
\* FALSE when they are no JSON string characters: a bare quote or control
\* character, or a broken escape
JsonUnescapeFrom(text, i) ==
    IF i > Len(text) THEN [ok |-> TRUE, str |-> << >>]
    ELSE IF text[i] = 34 \/ text[i] < 32 THEN [ok |-> FALSE, str |-> << >>]
    ELSE IF text[i] # 92
    THEN LET rest == JsonUnescapeFrom(text, i + 1)
         IN  [ok |-> rest.ok, str |-> <<text[i]>> \o rest.str]
    ELSE IF i + 1 > Len(text) THEN [ok |-> FALSE, str |-> << >>]
    ELSE IF text[i + 1] = 117
    THEN IF i + 5 > Len(text)
            \/ \E k \in 2 .. 5 : HexValue(text[i + k]) = -1
         THEN [ok |-> FALSE, str |-> << >>]
         ELSE LET code == 4096 * HexValue(text[i + 2]) + 256 * HexValue(text[i + 3])
                          + 16 * HexValue(text[i + 4]) + HexValue(text[i + 5])
                  rest == JsonUnescapeFrom(text, i + 6)
              \* code points below 128 are one byte; no other is written here
              IN  [ok |-> rest.ok /\ code < 128, str |-> <<code>> \o rest.str]
    ELSE IF JsonEscaped(text[i + 1]) = -1 THEN [ok |-> FALSE, str |-> << >>]
    ELSE LET rest == JsonUnescapeFrom(text, i + 2)
         IN  [ok |-> rest.ok, str |-> <<JsonEscaped(text[i + 1])>> \o rest.str]

JsonUnescape(text) == JsonUnescapeFrom(text, 1)

\* a string of printable and control bytes is handed to json_escape_str
InitJsonEscape ==
    /\ wctx = writer_open("json", "REPLACE", Replacement)
    /\ bk = NoBackend
    /\ log = NoLog
    /\ halt = "no"
    /\ show_optional_fields = SHOW_OPTIONAL_FIELDS_AUTO
    /\ filt = NoFilter
    /\ call = NoCall
    /\ \E src \in StringsUpTo(EscapeBytes, MaxEscLen) :
           run = [pc |-> "src", src |-> src, dst |-> << >>]

\* json_escape_str(dst, src)
JsonEscapeStr ==
    /\ run.pc = "src"
    /\ run' = [run EXCEPT !.pc = "dst", !.dst = json_escape_str(run.src)]
    /\ UNCHANGED <<wctx, bk, log, halt, show_optional_fields, filt, call>>

NextJsonEscape == JsonEscapeStr

SpecJsonEscape == InitJsonEscape /\ [][NextJsonEscape]_vars

\* C32: for every string s of printable and control bytes, reading
\* json_escape_str(s) as the characters of a JSON string succeeds and gives
\* back s.
C32_JsonEscapeInvertible ==
    run.pc = "dst" =>
        /\ JsonUnescape(run.dst).ok
        /\ JsonUnescape(run.dst).str = run.src

\* a backslash, a control byte and the letter u: \\, \u0001 and u are read
\* back as the three bytes
C32_Witness ==
    /\ run.pc = "dst"
    /\ run.src = <<92, 1, 117>>
    /\ run.dst = <<92, 92, 92, 117, 48, 48, 48, 49, 117>>
    /\ JsonUnescape(run.dst).str = run.src

(* ---------------------------------------------------------------- *)
(* SpecAdler: av_adler32_update (libavutil/adler32.c) over buffers  *)
(* given whole and in two pieces                                    *)
(* ---------------------------------------------------------------- *)

\* #define BASE
BASE == 65521

\* a 64-bit word is held as its four 16-bit parts, the lowest first
Lane == 65536

\* the word of four sums of 16-bit parts, carries passed upwards and the
\* carry out of bit 63 dropped
Carry64(t) ==
    LET r1 == t[1]
        r2 == t[2] + (r1 \div Lane)
        r3 == t[3] + (r2 \div Lane)
        r4 == t[4] + (r3 \div Lane)
    IN  <<r1 % Lane, r2 % Lane, r3 % Lane, r4 % Lane>>

\* x + y and x * c of uint64_t
Add64(x, y) == Carry64(<<x[1] + y[1], x[2] + y[2], x[3] + y[3], x[4] + y[4]>>)

Mul64(x, c) ==
    Carry64(<<x[1] * c[1],
              x[1] * c[2] + x[2] * c[1],
              x[1] * c[3] + x[2] * c[2] + x[3] * c[1],
              x[1] * c[4] + x[2] * c[3] + x[3] * c[2] + x[4] * c[1]>>)

\* x >> 16, x >> 32, x >> 48 and x & 0xFFFF0000FFFF
Shr16(x) == <<x[2], x[3], x[4], 0>>
Shr32(x) == x[3] + Lane * x[4]
Shr48(x) == x[4]
AndFFFF0000FFFF(x) == <<x[1], 0, x[3], 0>>

\* AV_RN64(buf) at the bytes buf[i .. i + 7], in the byte order of the build
AV_RN64(buf, i, bigendian) ==
    IF bigendian
    THEN <<256 * buf[i + 6] + buf[i + 7], 256 * buf[i + 4] + buf[i + 5],
           256 * buf[i + 2] + buf[i + 3], 256 * buf[i] + buf[i + 1]>>
    ELSE <<buf[i] + 256 * buf[i + 1], buf[i + 2] + 256 * buf[i + 3],
           buf[i + 4] + 256 * buf[i + 5], buf[i + 6] + 256 * buf[i + 7]>>

\* v & 0x00FF00FF00FF00FF and (v >> 8) & 0x00FF00FF00FF00FF
And00FF(v) == <<v[1] % 256, v[2] % 256, v[3] % 256, v[4] % 256>>
Shr8And00FF(v) == <<v[1] \div 256, v[2] \div 256, v[3] \div 256, v[4] \div 256>>

\* the builds: without the 64-bit path, with it on a little-endian and on a
\* big-endian machine
AdlerBuilds == { "small", "fast64_le", "fast64_be" }

RECURSIVE adler32_words(_, _, _, _, _)
\* while (len2 >= 8) of the 64-bit path: acc holds a1, a2, b1, b2
adler32_words(buf, i, len2, acc, bigendian) ==
    IF len2 < 8 THEN acc
    ELSE LET v == AV_RN64(buf, i, bigendian)
             a2 == Add64(acc.a2, acc.a1)
             b2 == Add64(acc.b2, acc.b1)
             a1 == Add64(acc.a1, And00FF(v))
             b1 == Add64(acc.b1, Shr8And00FF(v))
         IN  CHOOSE r \in { adler32_words(buf, i + 8, len2 - 8, next, bigendian) :
                             next \in {[a1 |-> a1, a2 |-> a2, b1 |-> b1, b2 |-> b2]} } :
                 TRUE

\* the 64-bit path of one turn of the outer loop: the state s1, s2 and the
\* next byte i after len2 bytes
adler32_fast(build, s1, s2, buf, i) ==
    LET len == Len(buf) - i + 1
        len2raw == ((len - 1) \div 8) * 8
        len2 == IF len2raw < 23 * 8 THEN len2raw ELSE 23 * 8
        zero == <<0, 0, 0, 0>>
        acc == adler32_words(buf, i, len2,
                             [a1 |-> zero, a2 |-> zero, b1 |-> zero, b2 |-> zero],
                             build = "fast64_be")
        folded == Shr32(Mul64(Add64(Add64(AndFFFF0000FFFF(acc.a2),
                                           AndFFFF0000FFFF(acc.b2)),
                                    Add64(AndFFFF0000FFFF(Shr16(acc.a2)),
                                          AndFFFF0000FFFF(Shr16(acc.b2)))),
                              <<8, 0, 8, 0>>))
        weighted ==
            IF build = "fast64_be"
            THEN 2 * Shr48(Mul64(acc.b1, <<4, 3, 2, 1>>))
                 + Shr48(Mul64(acc.a1, <<1, 1, 1, 1>>))
                 + 2 * Shr48(Mul64(acc.a1, <<3, 2, 1, 0>>))
            ELSE 2 * Shr48(Mul64(acc.a1, <<1, 2, 3, 4>>))
                 + Shr48(Mul64(acc.b1, <<1, 1, 1, 1>>))
                 + 2 * Shr48(Mul64(acc.b1, <<0, 1, 2, 3>>))
    IN  IF len2 = 0 THEN [s1 |-> s1, s2 |-> s2, i |-> i]
        ELSE [s1 |-> s1 + Shr48(Mul64(Add64(acc.a1, acc.b1), <<1, 1, 1, 1>>)),
              s2 |-> s2 + s1 * len2 + folded + weighted,
              i |-> i + len2]

RECURSIVE adler32_do4(_, _, _, _)
\* while (len > 4 && s2 < (1U << 31)) { DO4(buf); len -= 4; }
adler32_do4(s1, s2, buf, i) ==
    IF Len(buf) - i + 1 > 4 /\ s2 <= 2147483647
    THEN LET t1 == s1 + buf[i]
             t2 == t1 + buf[i + 1]
             t3 == t2 + buf[i + 2]
             t4 == t3 + buf[i + 3]
         IN  CHOOSE r \in { adler32_do4(next[1], next[2], buf, i + 4) :
                             next \in {<<t4, s2 + t1 + t2 + t3 + t4>>} } : TRUE
    ELSE [s1 |-> s1, s2 |-> s2, i |-> i]

RECURSIVE adler32_loop(_, _, _, _, _)
\* while (len > 0) and the return: the checksum as its halves s2 (hi) and
\* s1 (lo); both are below 65536 at the return
adler32_loop(build, s1, s2, buf, i) ==
    IF i > Len(buf) THEN [hi |-> s2 % Lane, lo |-> s1 % Lane]
    ELSE LET m == IF build = "small" THEN adler32_do4(s1, s2, buf, i)
                  ELSE adler32_fast(build, s1, s2, buf, i)
             \* DO1(buf); len--;
             t1 == m.s1 + buf[m.i]
             t2 == m.s2 + t1
         IN  CHOOSE r \in { adler32_loop(build, next[1], next[2], buf, next[3]) :
                             next \in {<<t1 % BASE, t2 % BASE, m.i + 1>>} } : TRUE

\* an update that starts every buffer from the checksum of no data
av_adler32_update_restart(build, adler, buf) ==
    adler32_loop(build, 1, 0, buf, 1)

\* av_adler32_update(adler, buf, len); adler is held as its two halves
av_adler32_update(build, adler, buf) ==
    adler32_loop(build, adler.lo, adler.hi, buf, 1)

\* longest of the short buffers
MaxBuf == 20

\* lengths of the buffers: all short ones, and two that are longer than the
\* 23 * 8 bytes one turn of the 64-bit path takes
AdlerLens == (0 .. MaxBuf) \cup { 190, 201 }

AdlerPatterns == { "ff", "zero", "ramp", "alt" }

\* a buffer of n bytes
AdlerBuffer(p, n) ==
    [ k \in 1 .. n |->
        CASE p = "ff" -> 255
          [] p = "zero" -> 0
          [] p = "ramp" -> (k * 37 + 11) % 256
          [] p = "alt" -> IF k % 2 = 0 THEN 255 ELSE 3 ]

\* initial checksums: that of no data (1), 0, 0xffffffff, and one with both
\* halves just below BASE
AdlerInits ==
    { [hi |-> 0, lo |-> 1], [hi |-> 0, lo |-> 0], [hi |-> 65535, lo |-> 65535],
      [hi |-> 65520, lo |-> 65520] }

\* a buffer, the place it is cut in two, an initial checksum and a build
InitAdler ==
    /\ wctx = writer_open("default", "REPLACE", Replacement)
    /\ bk = NoBackend
    /\ log = NoLog
    /\ halt = "no"
    /\ show_optional_fields = SHOW_OPTIONAL_FIELDS_AUTO
    /\ filt = NoFilter
    /\ call = NoCall
    /\ \E p \in AdlerPatterns, n \in AdlerLens, c \in AdlerInits,
          build \in AdlerBuilds :
           \E cut \in 0 .. n :
               run = [pc |-> "first", build |-> build, c |-> c,
                      A |-> SubSeq(AdlerBuffer(p, n), 1, cut),
                      B |-> SubSeq(AdlerBuffer(p, n), cut + 1, n),
                      pieces |-> c, whole |-> c]

AdlerDone(pc, field, adler) ==
    /\ run' = [run EXCEPT !.pc = pc, ![field] = adler]
    /\ UNCHANGED <<wctx, bk, log, halt, show_optional_fields, filt, call>>

\* av_adler32_update(c, A)
AdlerFirst ==
    /\ run.pc = "first"
    /\ AdlerDone("second", "pieces", av_adler32_update(run.build, run.c, run.A))

\* av_adler32_update(the result for A, B)
AdlerSecond ==
    /\ run.pc = "second"
    /\ AdlerDone("whole", "pieces",
                 av_adler32_update(run.build, run.pieces, run.B))

\* av_adler32_update(c, A followed by B)
AdlerWhole ==
    /\ run.pc = "whole"
    /\ AdlerDone("done", "whole",
                 av_adler32_update(run.build, run.c, run.A \o run.B))

NextAdler ==
    \/ AdlerFirst
    \/ AdlerSecond
    \/ AdlerWhole

SpecAdler == InitAdler /\ [][NextAdler]_vars

\* C33: for all buffers A and B and every initial checksum c,
\* av_adler32_update(av_adler32_update(c, A), B) is
\* av_adler32_update(c, A followed by B).
C33_AdlerConcatenation ==
    run.pc = "done" => run.pieces = run.whole

\* 201 bytes 0xff cut after 190, from the checksum 0xffffffff, in the build
\* with the 64-bit path
C33_Witness ==
    /\ run.pc = "done"
    /\ run.build = "fast64_le"
    /\ run.c = [hi |-> 65535, lo |-> 65535]
    /\ Len(run.A) = 190 /\ Len(run.B) = 11
    /\ run.A[1] = 255
    /\ run.pieces = run.whole

(* ---------------------------------------------------------------- *)
(* SpecDepth: the sections show_stream_groups opens                 *)
(* ---------------------------------------------------------------- *)

\* subblocks of one parameter definition
MaxSubblocks == 1

\* AVIAMFParamDefinition: its type is one the switch of
\* print_iamf_param_definition knows (mix gain) or not
ParamDefinitions ==
    { [nb_subblocks |-> n, type |-> t] :
        n \in 0 .. MaxSubblocks, t \in {"MIX_GAIN", "other"} }

\* print_iamf_param_definition(w, name, param, section_id)
print_iamf_param_definition_calls(param, section_id) ==
    LET subsection_id == sections[section_id].children_ids[1]
        parameter_section_id == sections[subsection_id].children_ids[1]
        subblocks[i \in 0 .. param.nb_subblocks] ==
            IF i = 0 THEN << >>
            ELSE subblocks[i - 1]
                 \o (IF param.type = "MIX_GAIN"
                     THEN <<Open(parameter_section_id), Close>> ELSE << >>)
    IN  <<Open(section_id)>>
        \o (IF param.nb_subblocks > 0 THEN <<Open(subsection_id)>> ELSE << >>)
        \o subblocks[param.nb_subblocks]
        \o (IF param.nb_subblocks > 0 THEN <<Close>> ELSE << >>)
        \o <<Close>>

\* a NULL pointer to a parameter definition
NoParam == [nb_subblocks |-> 0, type |-> "NULL"]

\* a parameter definition that may be absent
param_definition_calls(param, section_id) ==
    IF param = NoParam THEN << >>
    ELSE print_iamf_param_definition_calls(param, section_id)

\* print_tile_grid_params
print_tile_grid_params_calls(nb_tiles) ==
    LET tiles[i \in 0 .. nb_tiles] ==
            IF i = 0 THEN << >>
            ELSE tiles[i - 1] \o <<Open("STREAM_GROUP_SUBCOMPONENT"), Close>>
    IN  <<Open("STREAM_GROUP_COMPONENT"), Open("STREAM_GROUP_SUBCOMPONENTS")>>
        \o tiles[nb_tiles] \o <<Close, Close>>

\* print_iamf_audio_element_params
print_iamf_audio_element_params_calls(e) ==
    LET layers[i \in 0 .. e.nb_layers] ==
            IF i = 0 THEN << >>
            ELSE layers[i - 1] \o <<Open("STREAM_GROUP_SUBCOMPONENT"), Close>>
    IN  <<Open("STREAM_GROUP_COMPONENT"), Open("STREAM_GROUP_SUBCOMPONENTS")>>
        \o layers[e.nb_layers]
        \o param_definition_calls(e.demixing_info, "STREAM_GROUP_SUBCOMPONENT")
        \o param_definition_calls(e.recon_gain_info, "STREAM_GROUP_SUBCOMPONENT")
        \o <<Close, Close>>

\* print_iamf_submix_params: the elements of the submix are alike
print_iamf_submix_params_calls(submix) ==
    LET element ==
            <<Open("STREAM_GROUP_PIECE"), Open("STREAM_GROUP_SUBPIECES")>>
            \o (IF submix.annotations
                THEN <<Open("STREAM_GROUP_SUBPIECE"), Close>> ELSE << >>)
            \o param_definition_calls(submix.element_mix_config,
                                      "STREAM_GROUP_SUBPIECE")
            \o <<Close, Close>>
        elements[i \in 0 .. submix.nb_elements] ==
            IF i = 0 THEN << >> ELSE elements[i - 1] \o element
        layouts[i \in 0 .. submix.nb_layouts] ==
            IF i = 0 THEN << >>
            ELSE layouts[i - 1] \o <<Open("STREAM_GROUP_PIECE"), Close>>
    IN  <<Open("STREAM_GROUP_SUBCOMPONENT"), Open("STREAM_GROUP_PIECES")>>
        \o elements[submix.nb_elements]
        \o param_definition_calls(submix.output_mix_config, "STREAM_GROUP_PIECE")
        \o layouts[submix.nb_layouts]
        \o <<Close, Close>>

\* print_iamf_mix_presentation_params: the submixes are alike
print_iamf_mix_presentation_params_calls(m) ==
    LET submixes[i \in 0 .. m.nb_submixes] ==
            IF i = 0 THEN << >>
            ELSE submixes[i - 1] \o print_iamf_submix_params_calls(m.submix)
    IN  <<Open("STREAM_GROUP_COMPONENT"), Open("STREAM_GROUP_SUBCOMPONENTS")>>
        \o (IF m.annotations
            THEN <<Open("STREAM_GROUP_SUBCOMPONENT"), Close>> ELSE << >>)
        \o submixes[m.nb_submixes]
        \o <<Close, Close>>

\* print_stream_group_params
print_stream_group_params_calls(stg) ==
    <<Open("STREAM_GROUP_COMPONENTS")>>
    \o (CASE stg.type = "TILE_GRID" -> print_tile_grid_params_calls(stg.params)
          [] stg.type = "IAMF_AUDIO_ELEMENT" ->
                 print_iamf_audio_element_params_calls(stg.params)
          [] stg.type = "IAMF_MIX_PRESENTATION" ->
                 print_iamf_mix_presentation_params_calls(stg.params)
          [] OTHER -> << >>)
    \o <<Close>>

\* show_stream_group of a group without selected streams, dispositions and
\* tags not shown
show_stream_group_calls(stg, do_show_stream_group_components) ==
    <<Open("STREAM_GROUP")>>
    \o (IF do_show_stream_group_components
        THEN print_stream_group_params_calls(stg) ELSE << >>)
    \o <<Open("STREAM_GROUP_STREAMS"), Close, Close>>

\* main and show_stream_groups of a file with one stream group
stream_groups_run_calls(stg, do_show_stream_group_components) ==
    <<Open("ROOT"), Open("STREAM_GROUPS")>>
    \o show_stream_group_calls(stg, do_show_stream_group_components)
    \o <<Close, Close>>

\* a parameter definition or none
ParamOrNull == ParamDefinitions \cup {NoParam}

\* AVStreamGroup: its type and the parameters of that type
StreamGroups ==
    { [type |-> "NONE", params |-> 0] }
    \cup { [type |-> "TILE_GRID", params |-> n] : n \in 0 .. 1 }
    \cup { [type |-> "IAMF_AUDIO_ELEMENT",
            params |-> [nb_layers |-> n, demixing_info |-> d,
                        recon_gain_info |-> r]] :
              n \in 0 .. 1, d \in ParamOrNull, r \in ParamOrNull }
    \cup { [type |-> "IAMF_MIX_PRESENTATION",
            params |-> [annotations |-> a, nb_submixes |-> n,
                        submix |-> [nb_elements |-> e, annotations |-> ea,
                                    element_mix_config |-> emc,
                                    output_mix_config |-> omc,
                                    nb_layouts |-> l]]] :
              a \in BOOLEAN, n \in 0 .. 1, e \in 0 .. 1, ea \in BOOLEAN,
              emc \in ParamOrNull, omc \in ParamOrNull, l \in 0 .. 1 }

InitDepth ==
    /\ \E name \in MainWriters : wctx = writer_open(name, "REPLACE", Replacement)
    /\ \E stg \in StreamGroups, components \in BOOLEAN :
           run = [ pc |-> 1, stg |-> stg,
                   calls |-> stream_groups_run_calls(stg, components) ]
    /\ bk = NoBackend
    /\ log = NoLog
    /\ halt = "no"
    /\ show_optional_fields = SHOW_OPTIONAL_FIELDS_AUTO
    /\ filt = NoFilter
    /\ call = NoOutCall

NextDepth ==
    \/ ProbeOpen
    \/ ProbeClose

SpecDepth == InitDepth /\ [][NextDepth]_vars

\* C34: whatever section the producer opens, the level stays below
\* SECTION_MAX_NB_LEVELS and the assertion of writer_print_section_header
\* does not fire
C34_LevelBelowMax ==
    /\ halt # "assert"
    /\ wctx.level < SECTION_MAX_NB_LEVELS

(* ---------------------------------------------------------------- *)
(* C35: no deadlock on the log mutex                                *)
(* ---------------------------------------------------------------- *)

\* thread t stands between a pthread_mutex_lock(&log_mutex) it has made and
\* the pthread_mutex_unlock that follows it: in log_callback, in show_log
\* with the clear_log(0) it calls, or in clear_log(1)
InLockedRegion(t) ==
    IF t = "main"
    THEN \/ run.pc[t] \in { "show_log_size", "show_log_loop", "show_log_unlock" }
         \/ /\ run.pc[t] = "clear_log"
            /\ run.ret_pc = "show_log_unlock"
         \/ /\ run.pc[t] \in { "clear_log_loop", "clear_log_unlock" }
            /\ (run.need_lock \/ run.ret_pc = "show_log_unlock")
    ELSE run.pc[t] \in { "append", "unlock" }

\* thread t is about to call pthread_mutex_lock(&log_mutex)
AtLock(t) ==
    IF t = "main"
    THEN \/ run.pc[t] = "show_log"
         \/ run.pc[t] = "clear_log" /\ run.need_lock
    ELSE run.pc[t] = "lock"

\* C35: the log mutex is held by a thread exactly while the thread is
\* between a lock and the unlock of log_callback, show_log or clear_log (every
\* path through them releases it), the thread that holds it never comes to
\* lock it again, and no writer call made while it is held emits a log
\* message (which would enter log_callback and lock again).
C35_NoMutexDeadlock ==
    /\ \A t \in LogThreads : (run.log_mutex = t) <=> InLockedRegion(t)
    /\ \A t \in LogThreads : run.log_mutex = t => ~AtLock(t)
    /\ run.log_mutex = "main" => log = NoLog

\* the main thread holds the mutex in the loop of show_log, has written an
\* entry, and a decoder thread waits at its lock
C35_Witness ==
    /\ run.log_mutex = "main"
    /\ run.pc["main"] = "show_log_loop"
    /\ run.i = 1
    /\ bk.nb_print > 0
    /\ \E t \in LogThreads \ {"main"} : run.pc[t] = "lock"

(* ---------------------------------------------------------------- *)
(* C36: what show_log renders and leaves behind                     *)
(* ---------------------------------------------------------------- *)

\* the step is the pthread_mutex_unlock of show_log: the one of the early
\* return or the one after the loop
ShowLogReleases ==
    /\ run.pc["main"] \in { "show_log_size", "show_log_unlock" }
    /\ run.log_mutex = "main"
    /\ run'.log_mutex = "none"

\* no line was rendered twice
RenderedOnce ==
    \A i, j \in DOMAIN run.rendered : i # j => run.rendered[i] # run.rendered[j]

\* C36: however the appends of the decoder threads interleave with the main
\* thread, no captured line is rendered more than once, by one show_log call
\* or by two, and the log buffer is empty when show_log releases the mutex.
C36_RenderedOnceAndDrained ==
    /\ [](RenderedOnce)
    /\ [][ShowLogReleases => run'.log_buffer = << >>]_vars

\* the second show_log has rendered the line of its buffer, the first call
\* had rendered another
C36_Witness ==
    /\ run.nb_frames = 1
    /\ run.pc["main"] = "show_log_loop"
    /\ Len(run.rendered) = 2
    /\ run.i = 1
    /\ Len(run.log_buffer) = 1

(* ---------------------------------------------------------------- *)
(* SpecXmlCalls: the XML backend under every order of calls         *)
(* ---------------------------------------------------------------- *)

\* the caller opens, closes and emits in any order the writer accepts: a
\* field may follow the footer of a child section
SpecXmlCalls == InitOut({"xml"}) /\ [][NextOut]_vars

\* the last call wrote an attribute: a field, forwarded to the XML backend,
\* of a section without variable fields
XmlAttributeWritten ==
    /\ XmlFieldWritten
    /\ "HAS_VARIABLE_FIELDS" \notin sections[call.id].flags

\* C37: in the XML backend, whatever the order of field emits and child
\* sections in a section without variable fields, an attribute is written
\* only while the opening tag of the section is still unterminated, never
\* after a child section has closed the tag
C37_AttributeInsideTag == XmlAttributeWritten => bk.priv.within_tag = 1

(* ---------------------------------------------------------------- *)
(* C38: the counters of the combined array                          *)
(* ---------------------------------------------------------------- *)

\* the levels at which the combined array is open
CombinedArrayLevels ==
    { l \in Levels : l <= wctx.level /\ wctx.section[l] = "PACKETS_AND_FRAMES" }

\* the last call opened the combined array
CombinedArrayOpened ==
    /\ halt = "no"
    /\ call.op = "open"
    /\ call.id = "PACKETS_AND_FRAMES"

\* C38: while the combined packets-and-frames array is open, the packet
\* counter plus the frame counter is the item count of the level of the
\* array, the children closed in it so far, and both counters are 0 right
\* after the array is opened
C38_CountersMatchItems ==
    /\ \A l \in CombinedArrayLevels :
           wctx.nb_section_packet + wctx.nb_section_frame = wctx.nb_item[l]
    /\ CombinedArrayOpened =>
           wctx.nb_section_packet = 0 /\ wctx.nb_section_frame = 0

\* a packet, a frame and a subtitle have been closed in the array, which is
\* still open: one packet and two frames counted, three items
C38_Witness ==
    /\ wctx.level = 1
    /\ wctx.section[1] = "PACKETS_AND_FRAMES"
    /\ run.elems = <<"PACKET", "FRAME", "SUBTITLE">>
    /\ call.op = "close"
    /\ wctx.nb_section_packet = 1
    /\ wctx.nb_section_frame = 2
    /\ wctx.nb_item[1] = 3


(* ---------------------------------------------------------------- *)
(* SpecCEscape: c_escape_str of the Compact backend                 *)
(* ---------------------------------------------------------------- *)

\* bytes of the values: backspace, newline and backslash, which c_escape_str
\* names, the letter b, the default separator and a plain letter
CEscapeBytes == { 8, 10, 92, 98, 124, 65 }

\* item_sep after compact_init: the one character of item_sep_str, whatever
\* it is; the default, the letter b and the backslash
CEscapeSeps == { 124, 98, 92 }

\* longest value escaped
MaxCEscLen == 2

\* two values and a separator are handed to the Compact backend with
\* escape=c
InitCEscape ==
    /\ wctx = writer_open("compact", "REPLACE", Replacement)
    /\ bk = NoBackend
    /\ log = NoLog
    /\ halt = "no"
    /\ show_optional_fields = SHOW_OPTIONAL_FIELDS_AUTO
    /\ filt = NoFilter
    /\ call = NoCall
    /\ \E sep \in CEscapeSeps :
       \E a \in StringsUpTo(CEscapeBytes, MaxCEscLen) :
       \E b \in StringsUpTo(CEscapeBytes, MaxCEscLen) :
           run = [ pc |-> "src", priv |-> CompactContext(sep, FALSE, TRUE, "c"),
                   a |-> a, b |-> b, dst_a |-> << >>, dst_b |-> << >> ]

\* compact->escape_str(&buf, value, compact->item_sep, wctx), for each value
CEscapeStr ==
    /\ run.pc = "src"
    /\ run' = [run EXCEPT
                   !.pc = "dst",
                   !.dst_a = compact_escape_str(run.priv.escape_mode_str, run.a,
                                                run.priv.item_sep),
                   !.dst_b = compact_escape_str(run.priv.escape_mode_str, run.b,
                                                run.priv.item_sep)]
    /\ UNCHANGED <<wctx, bk, log, halt, show_optional_fields, filt, call>>

NextCEscape == CEscapeStr

SpecCEscape == InitCEscape /\ [][NextCEscape]_vars

\* C39: the C-style escaping of the Compact backend is injective for every
\* separator character that can be configured: two different values never
\* give the same escaped text
C39_CEscapeInjective ==
    (run.pc = "dst" /\ run.a # run.b) => run.dst_a # run.dst_b

(* ---------------------------------------------------------------- *)
(* SpecAesCtr: av_aes_ctr_crypt in one call and in chunks           *)
(* ---------------------------------------------------------------- *)

AES_BLOCK_SIZE == 16

RECURSIVE Xor8(_, _)
\* a ^ b of two bytes
Xor8(a, b) ==
    IF a = 0 THEN b
    ELSE IF b = 0 THEN a
    ELSE (((a % 2) + (b % 2)) % 2) + 2 * Xor8(a \div 2, b \div 2)

\* av_aes_crypt(&a->aes, dst, src, 1, NULL, 0) of libavutil/aes.c: one block
\* encrypted under the key of the context. The cipher is stood for by a
\* function of the key and of every byte of the block
av_aes_crypt(aes, src) ==
    LET mix[j \in 0 .. AES_BLOCK_SIZE] ==
            IF j = 0 THEN aes.key ELSE (mix[j - 1] * 5 + src[j] + j) % 251
    IN  [ i \in 1 .. AES_BLOCK_SIZE |-> (mix[AES_BLOCK_SIZE] * (2 * i + 1) + 31 * i) % 256 ]

RECURSIVE av_aes_ctr_increment_from(_, _)
\* the loop of av_aes_ctr_increment_be64 with cur_pos at byte pos of the
\* eight: the byte is incremented, and the one before it while it wrapped
av_aes_ctr_increment_from(counter, pos) ==
    IF pos < 1 THEN counter
    ELSE LET byte == (counter[pos] + 1) % 256
             next == [counter EXCEPT ![pos] = byte]
         IN  IF byte # 0 THEN next ELSE av_aes_ctr_increment_from(next, pos - 1)

\* av_aes_ctr_increment_be64(counter), counter being eight bytes
av_aes_ctr_increment_be64(counter) == av_aes_ctr_increment_from(counter, 8)

\* the context with the eight bytes from counter + 8 incremented
IncrementLowHalf(a) ==
    [a EXCEPT !.counter =
        SubSeq(a.counter, 1, 8)
            \o av_aes_ctr_increment_be64(SubSeq(a.counter, 9, AES_BLOCK_SIZE))]

RECURSIVE av_aes_ctr_crypt_loop(_, _, _, _)
\* the while loop of av_aes_ctr_crypt with src at position pos (from 1) of
\* the count bytes of src: r holds the context and the bytes written to dst
av_aes_ctr_crypt_loop(r, src, pos, restart) ==
    IF ~(pos <= Len(src)) THEN r
    ELSE
    LET a0 == IF restart THEN [r.a EXCEPT !.block_offset = 0] ELSE r.a
        a1 == IF a0.block_offset = 0
              THEN IncrementLowHalf(
                       [a0 EXCEPT !.encrypted_counter = av_aes_crypt(a0.aes, a0.counter)])
              ELSE a0
        cur_end_pos ==
            IF pos + AES_BLOCK_SIZE - a1.block_offset < Len(src) + 1
            THEN pos + AES_BLOCK_SIZE - a1.block_offset ELSE Len(src) + 1
        a2 == [a1 EXCEPT !.block_offset = (@ + cur_end_pos - pos) % AES_BLOCK_SIZE]
        written == [ k \in 1 .. (cur_end_pos - pos) |->
                       Xor8(src[pos + k - 1],
                            a1.encrypted_counter[a1.block_offset + k]) ]
    IN  CHOOSE out \in { av_aes_ctr_crypt_loop(next, src, cur_end_pos, FALSE) :
                           next \in {[a |-> a2, dst |-> r.dst \o written]} } : TRUE

\* an av_aes_ctr_crypt that starts every call on a fresh counter block
av_aes_ctr_crypt_restart(a, src) ==
    av_aes_ctr_crypt_loop([a |-> a, dst |-> << >>], src, 1, TRUE)

\* av_aes_ctr_crypt(a, dst, src, count): the context after the call and the
\* count bytes of dst
av_aes_ctr_crypt(a, src) ==
    av_aes_ctr_crypt_loop([a |-> a, dst |-> << >>], src, 1, FALSE)

\* longest byte sequence processed
MaxSrc == 36

\* keys of the contexts
AesKeys == { 3, 200 }

\* the sixteen bytes given to av_aes_ctr_set_full_iv: a counter half of 0,
\* one that carries into the next byte and one that wraps as a whole
AesIVs ==
    { [i \in 1 .. 16 |-> IF i <= 8 THEN i ELSE 0],
      [i \in 1 .. 16 |-> IF i <= 8 THEN 7 ELSE IF i = 16 THEN 255 ELSE 0],
      [i \in 1 .. 16 |-> IF i <= 8 THEN 9 ELSE 255] }

\* the bytes processed
AesSource(n) == [ i \in 1 .. n |-> (i * 37 + 11) % 256 ]

\* the context after av_aes_ctr_alloc, av_aes_ctr_init(key) and
\* av_aes_ctr_set_full_iv(iv)
AesCtrContext(key, iv) ==
    [ counter |-> iv,
      encrypted_counter |-> [i \in 1 .. AES_BLOCK_SIZE |-> 0],
      block_offset |-> 0,
      aes |-> [key |-> key] ]

\* two contexts with the same key and IV, and the bytes to process: one
\* context takes them in one call, the other in chunks
InitAesCtr ==
    /\ wctx = writer_open("default", "REPLACE", Replacement)
    /\ bk = NoBackend
    /\ log = NoLog
    /\ halt = "no"
    /\ show_optional_fields = SHOW_OPTIONAL_FIELDS_AUTO
    /\ filt = NoFilter
    /\ call = NoCall
    /\ \E key \in AesKeys, iv \in AesIVs, n \in 0 .. MaxSrc :
           run = [ src |-> AesSource(n),
                   whole |-> [a |-> AesCtrContext(key, iv), dst |-> << >>],
                   whole_called |-> FALSE,
                   split |-> [a |-> AesCtrContext(key, iv), dst |-> << >>],
                   nb_calls |-> 0 ]

\* av_aes_ctr_crypt(whole, dst, src, Len(src))
AesCryptWhole ==
    /\ ~run.whole_called
    /\ run' = [run EXCEPT !.whole = av_aes_ctr_crypt(run.whole.a, run.src),
                           !.whole_called = TRUE]
    /\ UNCHANGED <<wctx, bk, log, halt, show_optional_fields, filt, call>>

\* av_aes_ctr_crypt(split, dst + done, src + done, count): the next chunk
AesCryptChunk(count) ==
    /\ Len(run.split.dst) + count <= Len(run.src)
    /\ LET done == Len(run.split.dst)
           r == av_aes_ctr_crypt(run.split.a, SubSeq(run.src, done + 1, done + count))
       IN  run' = [run EXCEPT !.split = [a |-> r.a, dst |-> run.split.dst \o r.dst],
                               !.nb_calls = IF @ < 3 THEN @ + 1 ELSE @]
    /\ UNCHANGED <<wctx, bk, log, halt, show_optional_fields, filt, call>>

NextAesCtr ==
    \/ AesCryptWhole
    \/ \E count \in 0 .. MaxSrc : AesCryptChunk(count)

SpecAesCtr == InitAesCtr /\ [][NextAesCtr]_vars

\* both contexts have processed all the bytes
AesBothDone ==
    /\ run.whole_called
    /\ run.nb_calls > 0
    /\ Len(run.split.dst) = Len(run.src)

\* C40: from the same key and IV, one av_aes_ctr_crypt call over a byte
\* sequence gives the same output bytes and the same final counter and
\* block_offset as successive calls over any split of it into consecutive
\* chunks
C40_ChunkedEqualsWhole ==
    AesBothDone =>
        /\ run.split.dst = run.whole.dst
        /\ run.split.a.counter = run.whole.a.counter
        /\ run.split.a.block_offset = run.whole.a.block_offset

\* 36 bytes went through in one call and in three or more chunks; the
\* counter half wrapped from all ones to 0 and stands at 2, and 4 bytes of
\* the third block are used
C40_Witness ==
    /\ AesBothDone
    /\ Len(run.src) = MaxSrc
    /\ run.nb_calls = 3
    /\ run.whole.a.block_offset = 4
    /\ run.whole.a.counter = [i \in 1 .. 16 |-> IF i <= 8 THEN 9 ELSE IF i = 16 THEN 2 ELSE 0]
    /\ run.whole.dst # run.src
====
